---------------------------- MODULE Spec2Model ----------------------------
(***************************************************************************)
(* Model of the mind-map canvas of mindmap-plus                            *)
(* (src/src/components/canvas/MindMapCanvas.tsx, FollowUpNode.tsx):        *)
(* the layout functions, the node and edge lists held in React state, the  *)
(* generation tracker (nodesWithGeneratedChildren), the timers and the     *)
(* generation requests in flight; and of the retry and rate-limit logic of *)
(* the server's Claude service (src/server/services/claudeService.js).     *)
(*                                                                         *)
(* Node and edge ids are strings built with '-' in the source; here an id  *)
(* is the sequence of its '-'-separated tokens, so that the template       *)
(* `${a}-${b}` is the concatenation a \o b.                                *)
(***************************************************************************)
EXTENDS Integers, Sequences, FiniteSets, TLC

VARIABLES
    nodes,      \* useNodesState: the rendered node list
    edges,      \* useEdgesState: the rendered edge list
    pending,    \* state updates dispatched (setNodes/setEdges) and not yet rendered, task by task
    tracker,    \* nodesWithGeneratedChildren.current
    timers,     \* setTimeout callbacks not yet fired
    inflight,   \* generation requests awaiting their response
    session,    \* history: number of the canvas session being displayed
    issued,     \* history: number of sessions started so far (initialize / reset)
    batches,    \* history: parent id -> expansions that passed the tracker guard since the last reset
    marked,     \* history: ids marked in the tracker, with the session displayed when marked
    budget,     \* user actions taken so far
    cleaned,    \* history: a duplicate-edge cleanup has removed an edge
    generated,  \* history: parent id -> number of follow-ups of the call that passed the tracker
                \* check since the last reset
    hoveredNodeId,      \* useState: the node under the pointer, <<>> for null
    highlightedEdgeIds, \* useState: ids of the edges on the path from that node to the root
    hovers,             \* history: changes of hoveredNodeId so far
    geoNodes,   \* layout scenario: existingNodes fed to calculateNodePositions
    geoReturned, \* layout scenario: every position calculateNodePositions returned
    ctxNodes,     \* context scenario: getNodes() as buildAncestorContext reads it
    ctxEdges,     \* context scenario: getEdges() as buildAncestorContext reads it
    ctxCalls,     \* context scenario: the calls of getParentContext still to be made, in order
    visitedNodes, \* context scenario: visitedNodes, in the order of insertion
    context,      \* context scenario: the context array
    argNodes,     \* placement and overlap scenarios: the argument existingNodes
    argEdges,     \* placement scenario: the argument existingEdges
    argParent,    \* placement scenario: the argument parentNodeId, <<>> for null
    argCount,     \* placement scenario: the argument childrenCount
    argPosition,  \* overlap scenario: the argument position of avoidOverlap
    pc,           \* placement and overlap scenarios: where the call is
    depthNode,    \* placement scenario: the nodeId of the innermost calculateNodeDepth
    depthCalls,   \* placement scenario: calls of calculateNodeDepth on the stack
    retPositions, \* placement scenario: what calculateNodePositions returned
    retPosition,  \* overlap scenario: what avoidOverlap returned
    retAttempts,  \* overlap scenario: the probes avoidOverlap made
    retEdges,     \* cleanup scenario: what the cleanup updater returned
    tokenUsage,   \* server: tokens counted in the current rate-limit window
    lastResetTime,\* server: when the window began, in ms
    now,          \* server: Date.now(), in ms
    apiCalls      \* server: the invocations of makeClaudeAPICall

vars == <<nodes, edges, pending, tracker, timers, inflight,
          session, issued, batches, marked, budget, cleaned, generated,
          hoveredNodeId, highlightedEdgeIds, hovers,
          geoNodes, geoReturned,
          ctxNodes, ctxEdges, ctxCalls, visitedNodes, context,
          argNodes, argEdges, argParent, argCount, argPosition, pc,
          depthNode, depthCalls, retPositions, retPosition, retAttempts, retEdges,
          tokenUsage, lastResetTime, now, apiCalls>>

canvasVars == <<nodes, edges, pending, tracker, timers, inflight,
                session, issued, batches, marked, budget, cleaned, generated,
                hoveredNodeId, highlightedEdgeIds, hovers>>
hoverVars == <<hoveredNodeId, highlightedEdgeIds, hovers>>
callVars == <<argNodes, argEdges, argParent, argCount, argPosition, pc,
              depthNode, depthCalls, retPositions, retPosition, retAttempts, retEdges>>
geoVars == <<geoNodes, geoReturned, callVars>>
ctxVars == <<ctxNodes, ctxEdges, ctxCalls, visitedNodes, context>>
serverVars == <<tokenUsage, lastResetTime, now, apiCalls>>

-----------------------------------------------------------------------------
(* Constants for dimensions and spacing *)
NODE_WIDTH == 300
NODE_HEIGHT == 150
PADDING == 50
GRID_HORIZONTAL_SPACING == 250
GRID_VERTICAL_SPACING == 200
MAX_SIBLINGS_PER_LEVEL == 3
maxAttempts == 20

Abs(v) == IF v < 0 THEN 0 - v ELSE v

(* the element of a one-element set; Only({e(v) : v \in {d}}) is e with v bound to
   the value of d, computed once *)
Only(S) == CHOOSE x \in S : TRUE
Min(a, b) == IF a < b THEN a ELSE b
Pos(px, py) == [x |-> px, y |-> py]
Range(s) == {s[i] : i \in 1..Len(s)}

RECURSIVE MaxOf(_)
MaxOf(S) == LET v == CHOOSE w \in S : TRUE
            IN IF S = {v} THEN v
               ELSE LET m == MaxOf(S \ {v}) IN IF v > m THEN v ELSE m

(* find: the first element of the list that satisfies the test *)
FindIdx(s, Test(_)) ==
    LET hits == {i \in 1..Len(s) : Test(s[i])}
    IN IF hits = {} THEN 0 ELSE CHOOSE i \in hits : \A j \in hits : i <= j

(* a position that is missing or whose x or y is not a number *)
NoPosition == [undefined |-> TRUE]

(* node.position && typeof node.position.x === 'number' && typeof node.position.y
   === 'number' (lines 80, 167-171) *)
hasNumericPosition(node) == DOMAIN node.position = {"x", "y"}

(* isOverlapping: the half-extent test of avoidOverlap; 2*|d| < w+p is |d| < (w+p)/2 *)
isOverlapping(pos, validNodes) ==
    \E i \in 1..Len(validNodes) :
        /\ 2 * Abs(validNodes[i].position.x - pos.x) < NODE_WIDTH + PADDING
        /\ 2 * Abs(validNodes[i].position.y - pos.y) < NODE_HEIGHT + PADDING

(* the while loop of avoidOverlap: returns the test position and the attempts made *)
RECURSIVE probeLoop(_, _, _, _)
probeLoop(position, testPosition, attempts, validNodes) ==
    IF isOverlapping(testPosition, validNodes) /\ attempts < maxAttempts
    THEN Only({probeLoop(position, moved, n, validNodes) :
                 moved \in {IF attempts % 2 = 0
                            THEN Pos(testPosition.x + GRID_HORIZONTAL_SPACING, testPosition.y)
                            ELSE Pos(position.x, testPosition.y + GRID_VERTICAL_SPACING)},
                 n \in {attempts + 1}})
    ELSE [pos |-> testPosition, attempts |-> attempts]

(* a fallback on the row of the lowest node *)
fallbackOnLowestRow(position, validNodes) ==
    Pos(position.x, MaxOf({validNodes[i].position.y : i \in 1..Len(validNodes)}))

(* the position below all existing nodes (lines 214-217) *)
fallbackPosition(position, validNodes) ==
    Pos(position.x,
        MaxOf({validNodes[i].position.y : i \in 1..Len(validNodes)}) + NODE_HEIGHT + PADDING)

(* the probes avoidOverlap makes for a numeric position: 0 when it returns before
   the loop *)
probesMade(position, existingNodes) ==
    LET validNodes == SelectSeq(existingNodes, hasNumericPosition)
    IN IF Len(validNodes) = 0 \/ ~isOverlapping(position, validNodes) THEN 0
       ELSE probeLoop(position, position, 0, validNodes).attempts

(* an avoidOverlap that steps aside once a call has returned positions *)
avoidOverlapRemembering(position, existingNodes) ==
    IF retPositions = <<>> THEN position
    ELSE Pos(position.x + GRID_HORIZONTAL_SPACING, position.y)

(* an avoidOverlap that probes whether or not the position overlaps *)
avoidOverlapAlwaysMoves(position, existingNodes) ==
    Pos(position.x + GRID_HORIZONTAL_SPACING, position.y)

(* avoidOverlap for a numeric position (lines 161-219) *)
avoidOverlap(position, existingNodes) ==
    IF Len(existingNodes) = 0 THEN position
    ELSE Only({IF Len(validNodes) = 0 THEN position
               ELSE IF ~isOverlapping(position, validNodes) THEN position
               ELSE Only({IF r.attempts >= maxAttempts
                          THEN fallbackPosition(position, validNodes)
                          ELSE r.pos :
                          r \in {probeLoop(position, position, 0, validNodes)}}) :
               validNodes \in {SelectSeq(existingNodes, hasNumericPosition)}})

(* calculateNodePositions; parentNodeId = <<>> stands for null *)
CenterPos == Pos(650, 400)

(* a root case that returns the center once per child *)
rootPositionsPerChild(childrenCount) == [i \in 1..childrenCount |-> CenterPos]

(* no parent: the first node (line 75) *)
rootPositions(childrenCount) == <<CenterPos>>

(* parent not found or without numeric position (line 82) *)
unresolvedPositions(childrenCount) == <<CenterPos>>

(* a column offset of one grid step *)
columnOffsetGridStep(i) == (i \div MAX_SIBLINGS_PER_LEVEL) * GRID_HORIZONTAL_SPACING

(* Math.floor(i / MAX_SIBLINGS_PER_LEVEL) * (NODE_WIDTH + PADDING) (line 107) *)
columnOffset(i) == (i \div MAX_SIBLINGS_PER_LEVEL) * (NODE_WIDTH + PADDING)

(* the position of child i before overlap resolution (lines 92-113) *)
idealPosition(parentNode, childrenCount, i) ==
    LET baseX == parentNode.position.x + GRID_HORIZONTAL_SPACING
        totalHeight == Min(childrenCount, MAX_SIBLINGS_PER_LEVEL) * GRID_VERTICAL_SPACING
        startY == IF childrenCount > 1
                  THEN parentNode.position.y - (totalHeight \div 2) + (GRID_VERTICAL_SPACING \div 2)
                  ELSE parentNode.position.y
    IN Pos(baseX + columnOffset(i),
           startY + (i % MAX_SIBLINGS_PER_LEVEL) * GRID_VERTICAL_SPACING)

(* the parent calculateNodePositions finds (lines 79-80): 0 when it finds none or
   one without numeric position *)
resolveParent(parentNodeId, existingNodes) ==
    LET pi == FindIdx(existingNodes, LAMBDA n : n.id = parentNodeId)
    IN IF pi = 0 THEN 0
       ELSE IF ~hasNumericPosition(existingNodes[pi]) THEN 0
       ELSE pi

(* calculateNodePositions (lines 62-120).  parentDepth (line 86) is computed and
   not used; the walk that computes it is stepped in the placement scenario *)
calculateNodePositions(parentNodeId, childrenCount0, existingNodes) ==
    LET childrenCount == IF childrenCount0 <= 0 THEN 1 ELSE childrenCount0
        pi == resolveParent(parentNodeId, existingNodes)
    IN IF parentNodeId = <<>> THEN rootPositions(childrenCount)
       ELSE IF pi = 0 THEN unresolvedPositions(childrenCount)
       ELSE [i \in 1..childrenCount |->
               Only({avoidOverlap(position, existingNodes) :
                       position \in {idealPosition(existingNodes[pi], childrenCount, i - 1)}})]

-----------------------------------------------------------------------------
(* Bounds of the model *)
MaxGeoNodes == 7      \* layout scenario: nodes placed
MaxGeoChildren == 4   \* layout scenario: childrenCount of one call
MaxUser == 2          \* user actions after the first load: another canvas opened, a question asked,
                      \* an "Ask follow-up" or topic click, a reset
MaxPending == 2       \* tasks whose state updates wait for one render
MaxFollowUps == 1     \* follow-up questions in one answer of the generation service
MaxLiveUser == 1      \* liveness scenario: user actions after the first load
MaxHover == 2         \* liveness scenario: changes of the hovered node
MaxCtxEdges == 4      \* context scenario: length of the edge list
MaxArgNodes == 2      \* placement scenario: length of existingNodes
MaxArgEdges == 2      \* placement scenario: length of existingEdges
MaxArgChildren == 4   \* placement scenario: childrenCount
MaxStack == 6         \* placement scenario: calls of calculateNodeDepth the call stack holds
MaxRows == 10         \* overlap scenario: rows of existing nodes below the position
MaxCleanEdges == 4    \* cleanup scenario: length of the edge list
MaxCalls == 1         \* server scenario: invocations of makeClaudeAPICall in flight
MaxNow == 64000       \* server scenario: the clock stops here when no delay is pending
TickMs == 2000        \* server scenario: the step of the clock, in ms

EmptyFn == [z \in {} |-> 0]
Tok(n) == <<"0", "1", "2", "3", "4", "5", "6", "7", "8", "9">>[n + 1]

(* the follow-up lists the generation service may answer with *)
ApiFollowUps == {[i \in 1..k |-> "f" \o Tok(i)] : k \in 0..MaxFollowUps}
(* the placeholder follow-ups of a failed follow-up call, and of a failed initial call *)
mockFollowUps == <<"Question 1", "Question 2", "Question 3">>
initMockFollowUps == <<"aspects", "experiences", "perspectives">>

-----------------------------------------------------------------------------
(* an edge drawn from the child to the parent *)
createEdgeReversed(source, target) ==
    [id |-> <<"edge">> \o source \o target, source |-> target, target |-> source,
     className |-> ""]

(* createEdge: `edge-${source}-${target}`; className is '' (or absent) until the
   highlight effect sets it *)
createEdge(source, target) ==
    [id |-> <<"edge">> \o source \o target, source |-> source, target |-> target,
     className |-> ""]

MkNode(id, type, position, question, isCustom, isInput, sess, origin) ==
    [id |-> id, type |-> type, position |-> position, question |-> question,
     content |-> "", answer |-> "", hasBeenAnswered |-> FALSE, childQuestions |-> <<>>,
     isCustom |-> isCustom, isInput |-> isInput, sess |-> sess, origin |-> origin]

HasNode(ns, id) == \E i \in 1..Len(ns) : ns[i].id = id
NodeIds(ns) == {ns[i].id : i \in 1..Len(ns)}

(***************************************************************************)
(* initializeCanvas, from the response on: the node and edge lists it      *)
(* hands to setNodes and setEdges.                                         *)
(***************************************************************************)
responseId == <<"response", "1">>
customFollowUpId == <<"custom", "followup">>

initialNodes(followUpQuestions, answer, sess) ==
    LET responseNode == [MkNode(responseId, "response", Pos(250, 300), "", FALSE, FALSE, sess, sess)
                            EXCEPT !.content = answer]
        n == Len(followUpQuestions)
        followUpPositions == calculateNodePositions(responseId, n + 1, <<responseNode>>)
    IN <<responseNode>>
       \o [i \in 1..n |->
             MkNode(<<"followup", Tok(i)>>, "followUp",
                    IF i <= Len(followUpPositions) THEN followUpPositions[i]
                    ELSE Pos(600, 300 + (i - 1) * 150),
                    followUpQuestions[i], FALSE, FALSE, sess, 0)]
       \o <<MkNode(customFollowUpId, "followUp",
                   IF n + 1 <= Len(followUpPositions) THEN followUpPositions[n + 1]
                   ELSE Pos(600, 300 + n * 150),
                   "", TRUE, FALSE, sess, 0)>>

(* an initial edge list without the edge to the custom follow-up node *)
initialEdgesQuestionsOnly(followUpQuestions) ==
    [i \in 1..Len(followUpQuestions) |-> createEdge(responseId, <<"followup", Tok(i)>>)]

initialEdges(followUpQuestions) ==
    [i \in 1..Len(followUpQuestions) |-> createEdge(responseId, <<"followup", Tok(i)>>)]
    \o <<createEdge(responseId, customFollowUpId)>>

-----------------------------------------------------------------------------
(***************************************************************************)
(* State updates.  setNodes(f) and setEdges(f) do not change the lists:    *)
(* they queue f, and the next render applies the queued updates in the     *)
(* order of their dispatch, each to the result of the one before.  An      *)
(* update dispatched from inside an updater (the nested setNodes/setEdges  *)
(* of handleGenerateChildNodes) is queued behind the ones already there.   *)
(* A render state is [nodes, edges, timers, tracker, marked, session,      *)
(* answered, touched, cleaned]: the lists so far, the timers the updaters  *)
(* have set, the tracker, the ids of the nodes an answer was written to,   *)
(* whether setEdges produced a new list, and whether the cleanup removed   *)
(* an edge.                                                                *)
(***************************************************************************)
renderState(ts) ==
    [nodes |-> nodes, edges |-> edges, timers |-> ts, tracker |-> tracker, marked |-> marked,
     session |-> session, answered |-> {}, touched |-> FALSE, cleaned |-> FALSE]

(***************************************************************************)
(* The updaters.                                                           *)
(***************************************************************************)

(* a timer that will call handleGenerateChildNodes(id, ..., followUps) *)
generateTimer(src, id, followUps, origin) ==
    [kind |-> "generate", src |-> src, id |-> id, followUps |-> followUps, origin |-> origin]

(* an updater that writes the answer and sets no timer *)
applyAnswerNoTrigger(u, st) ==
    [st |-> [st EXCEPT
               !.nodes = [i \in 1..Len(st.nodes) |->
                            IF st.nodes[i].id = u.id
                            THEN [st.nodes[i] EXCEPT !.answer = u.answer,
                                                     !.hasBeenAnswered = TRUE,
                                                     !.childQuestions = u.followUps,
                                                     !.origin = u.origin]
                            ELSE st.nodes[i]]],
     more |-> <<>>]

(* an updater that drops the node it was to answer *)
applyAnswerDropsNode(u, st) ==
    [st |-> [st EXCEPT !.nodes = SelectSeq(@, LAMBDA n : n.id # u.id)], more |-> <<>>]

(* handleFollowUpQuestion's updater: every node with the id gets the answer; in
   the failure branch the 500 ms expansion timer is set inside the updater *)
applyAnswer(u, st) ==
    IF ~HasNode(st.nodes, u.id) THEN [st |-> st, more |-> <<>>]
    ELSE [st |-> [st EXCEPT
                    !.nodes = [i \in 1..Len(st.nodes) |->
                                 IF st.nodes[i].id = u.id
                                 THEN [st.nodes[i] EXCEPT
                                         !.answer = u.answer,
                                         !.hasBeenAnswered = TRUE,
                                         !.childQuestions = u.followUps,
                                         !.question = IF u.isCustom THEN u.question ELSE @,
                                         !.origin = u.origin]
                                 ELSE st.nodes[i]],
                    !.answered = @ \cup {u.id},
                    !.timers = IF u.mock
                               THEN @ \cup {generateTimer("explicit", u.id, u.followUps, u.origin)}
                               ELSE @],
          more |-> <<>>]

(* the child nodes handleGenerateChildNodes builds: `followup-${parentId}-${index}` *)
childId(parentId, index) == <<"followup">> \o parentId \o <<Tok(index)>>

newChildNodes(parentId, followUpQuestions, currentNodes, origin) ==
    LET parentNode == currentNodes[FindIdx(currentNodes, LAMBDA n : n.id = parentId)]
    IN Only({[i \in 1..Len(followUpQuestions) |->
                MkNode(childId(parentId, i - 1), "followUp",
                       IF i <= Len(childPositions) THEN childPositions[i] ELSE Pos(0, 0),
                       followUpQuestions[i], FALSE, FALSE, parentNode.sess, origin)] :
             childPositions \in {calculateNodePositions(parentId, Len(followUpQuestions),
                                                       currentNodes)}})

childEdgesOf(parentId, newNodes) ==
    [i \in 1..Len(newNodes) |-> createEdge(parentId, newNodes[i].id)]

(* handleGenerateChildNodes' updater (lines 868-977), run by the render: it returns
   the list with the new nodes, adds the parent to the tracker once more (line 952),
   dispatches setNodes and setEdges once more, and fills newNodeIds, which the
   100 ms timer set by the handler reads *)
applyGenerate(u, st) ==
    IF ~HasNode(st.nodes, u.parentId) THEN [st |-> st, more |-> <<>>]
    ELSE Only({
           [st |-> [st EXCEPT
                      !.nodes = @ \o newNodes,
                      !.tracker = IF Len(newNodes) > 0 THEN @ \cup {u.parentId} ELSE @,
                      !.marked = IF Len(newNodes) > 0 /\ u.parentId \notin st.tracker
                                 THEN @ \cup {[id |-> u.parentId, sess |-> st.session]}
                                 ELSE @,
                      !.timers = @ \cup {[kind |-> "childEdges", parentId |-> u.parentId,
                                          ids |-> [i \in 1..Len(newNodes) |-> newNodes[i].id]]}],
            more |-> << [op |-> "appendNodes", val |-> newNodes],
                        [op |-> "appendEdges", val |-> childEdgesOf(u.parentId, newNodes)] >>] :
           newNodes \in {newChildNodes(u.parentId, u.followUps, st.nodes, u.origin)}})

(* the delayed setEdges of handleGenerateChildNodes (lines 981-1009): the edge it
   looks for is `edge-${parentId}-to-${childId}` *)
RECURSIVE addChildEdges(_, _, _, _)
addChildEdges(parentId, ids, currentEdges, newEdges) ==
    IF ids = <<>> THEN newEdges
    ELSE addChildEdges(parentId, Tail(ids), currentEdges,
            IF ~\E i \in 1..Len(currentEdges) :
                  currentEdges[i].id = <<"edge">> \o parentId \o <<"to">> \o Head(ids)
            THEN Append(newEdges, createEdge(parentId, Head(ids)))
            ELSE newEdges)

(* handleCreateCustomFollowUp's updater (lines 1040-1202) *)
rightmostNode(currentNodes) ==
    currentNodes[CHOOSE i \in 1..Len(currentNodes) :
        /\ \A j \in 1..Len(currentNodes) : currentNodes[j].position.x <= currentNodes[i].position.x
        /\ \A j \in 1..(i - 1) : currentNodes[j].position.x < currentNodes[i].position.x]

applyCustomNode(u, st) ==
    LET pi == FindIdx(st.nodes, LAMBDA n : n.id = u.parentId)
        position == IF pi = 0
                    THEN IF Len(st.nodes) > 0
                         THEN Pos(rightmostNode(st.nodes).position.x + GRID_HORIZONTAL_SPACING,
                                  rightmostNode(st.nodes).position.y)
                         ELSE Pos(400, 300)
                    ELSE Pos(st.nodes[pi].position.x + GRID_HORIZONTAL_SPACING,
                             st.nodes[pi].position.y)
        newNode == MkNode(u.newNodeId, "followUp", avoidOverlap(position, st.nodes),
                          "", TRUE, TRUE, IF pi = 0 THEN st.session ELSE st.nodes[pi].sess, 0)
    IN [st |-> [st EXCEPT
                  !.nodes = Append(@, newNode),
                  !.timers = @ \cup {[kind |-> "customEdge", parentId |-> u.parentId,
                                      newNodeId |-> u.newNodeId, parentNode |-> pi # 0]}],
        more |-> <<>>]

(* the delayed setEdges of handleCreateCustomFollowUp (lines 1118-1168) *)
applyCustomEdge(u, st) ==
    IF \E i \in 1..Len(st.edges) :
          st.edges[i].source = u.parentId /\ st.edges[i].target = u.newNodeId
    THEN [st |-> st, more |-> <<>>]
    ELSE [st |-> [st EXCEPT
                    !.edges = Append(@, [id |-> <<"edge">> \o u.parentId \o <<"to">> \o u.newNodeId \o <<"u">>,
                                         source |-> u.parentId, target |-> u.newNodeId,
                                         className |-> ""]),
                    !.touched = TRUE],
          more |-> <<>>]

(* an edge key that stops at the first '-' of each id *)
comboUpToDash(edge) == <<Head(edge.source), Head(edge.target)>>

(* an edge key that looks at the source only *)
comboSourceOnly(edge) == edge.source

(* the duplicate-edge cleanup (lines 299-319): the key of an edge is
   `${edge.source}-${edge.target}` *)
combo(edge) == edge.source \o edge.target

(* a pass that keeps the last edge of each key *)
uniqueEdgesLastSeen(currentEdges, seenCombos, acc) ==
    SelectSeq(currentEdges,
              LAMBDA edge : \E i \in 1..Len(currentEdges) :
                               /\ currentEdges[i] = edge
                               /\ \A j \in (i + 1)..Len(currentEdges) :
                                     currentEdges[j].source \o currentEdges[j].target
                                        # edge.source \o edge.target)

RECURSIVE uniqueEdges(_, _, _)
uniqueEdges(currentEdges, seenCombos, acc) ==
    IF currentEdges = <<>> THEN acc
    ELSE LET edge == Head(currentEdges)
         IN IF combo(edge) \notin seenCombos
            THEN uniqueEdges(Tail(currentEdges), seenCombos \cup {combo(edge)}, Append(acc, edge))
            ELSE uniqueEdges(Tail(currentEdges), seenCombos, acc)

(* a pass that keeps every edge *)
cleanupKeepsAll(currentEdges) == currentEdges

cleanupEdges(currentEdges) == uniqueEdges(currentEdges, {}, <<>>)

(* findPathToRoot (lines 324-346): the ids of the edges met walking the incoming
   edges upward from nodeId; a node id is visited once *)
RECURSIVE traverseUp(_, _, _, _)
traverseUp(todo, visited, edgeSet, currentEdges) ==
    IF todo = <<>> THEN edgeSet
    ELSE IF Head(todo) \in visited THEN traverseUp(Tail(todo), visited, edgeSet, currentEdges)
    ELSE LET incomingEdges == SelectSeq(currentEdges, LAMBDA e : e.target = Head(todo))
         IN traverseUp([k \in 1..Len(incomingEdges) |-> incomingEdges[k].source] \o Tail(todo),
                       visited \cup {Head(todo)},
                       edgeSet \cup {incomingEdges[k].id : k \in 1..Len(incomingEdges)},
                       currentEdges)

findPathToRoot(nodeId, currentEdges) == traverseUp(<<nodeId>>, {}, {}, currentEdges)

(* the edge highlight effect (lines 359-398) *)
needsUpdate(es, highlighted) ==
    /\ Len(es) > 0
    /\ \E i \in 1..Len(es) :
          (es[i].id \in highlighted) # (es[i].className = "highlighted-path")

applyHighlight(highlightedEdgesMap, currentEdges) ==
    [i \in 1..Len(currentEdges) |->
        [currentEdges[i] EXCEPT
            !.className = IF currentEdges[i].id \in highlightedEdgesMap
                          THEN "highlighted-path" ELSE ""]]

applyUpdate(u, st) ==
    CASE u.op = "setNodes" ->
            [st |-> [st EXCEPT !.nodes = u.val, !.session = u.sess], more |-> <<>>]
      [] u.op = "setEdges" ->
            [st |-> [st EXCEPT !.edges = u.val, !.touched = TRUE], more |-> <<>>]
      [] u.op = "answer" -> applyAnswer(u, st)
      [] u.op = "generate" -> applyGenerate(u, st)
      [] u.op = "appendNodes" ->
            [st |-> [st EXCEPT !.nodes = @ \o u.val], more |-> <<>>]
      [] u.op = "appendEdges" ->
            [st |-> [st EXCEPT !.edges = @ \o u.val, !.touched = TRUE], more |-> <<>>]
      [] u.op = "childEdges" ->
            [st |-> [st EXCEPT !.edges = addChildEdges(u.parentId, u.ids, @, @),
                               !.touched = TRUE], more |-> <<>>]
      [] u.op = "customNode" -> applyCustomNode(u, st)
      [] u.op = "customEdge" -> applyCustomEdge(u, st)
      [] u.op = "highlight" ->
            [st |-> [st EXCEPT !.edges = applyHighlight(u.map, @), !.touched = TRUE], more |-> <<>>]
      [] u.op = "cleanup" ->
            [st |-> [st EXCEPT !.edges = cleanupEdges(@), !.touched = TRUE,
                               !.cleaned = @ \/ Len(cleanupEdges(st.edges)) < Len(st.edges)],
             more |-> <<>>]

(* the render loop: the head of the queue is applied to the state so far, what it
   dispatched goes to the end of the queue *)
RECURSIVE applyQueue(_, _)
applyQueue(queue, st) ==
    IF queue = <<>> THEN st
    ELSE Only({applyQueue(Tail(queue) \o r.more, r.st) : r \in {applyUpdate(Head(queue), st)}})

(* pending holds, task by task, the updates each task dispatched *)
RECURSIVE Flatten(_)
Flatten(tasks) == IF tasks = <<>> THEN <<>> ELSE Head(tasks) \o Flatten(Tail(tasks))

-----------------------------------------------------------------------------
(***************************************************************************)
(* The canvas.  Every action is one task of the event loop: a user event,  *)
(* a timer callback, the continuation of an awaited call, a render, an     *)
(* effect.                                                                 *)
(***************************************************************************)
CanvasInit ==
    /\ nodes = <<>>
    /\ edges = <<>>
    /\ pending = <<>>
    /\ tracker = {}
    /\ timers = {}
    /\ inflight = {}
    /\ session = 0
    /\ issued = 0
    /\ batches = EmptyFn
    /\ marked = {}
    /\ budget = 0
    /\ cleaned = FALSE
    /\ generated = EmptyFn
    /\ hoveredNodeId = <<>>
    /\ highlightedEdgeIds = {}
    /\ hovers = 0

CallIdle == /\ argNodes = <<>>
            /\ argEdges = <<>>
            /\ argParent = <<>>
            /\ argCount = 0
            /\ argPosition = Pos(0, 0)
            /\ pc = "idle"
            /\ depthNode = <<>>
            /\ depthCalls = 0
            /\ retPositions = <<>>
            /\ retPosition = Pos(0, 0)
            /\ retAttempts = 0
            /\ retEdges = <<>>

GeoIdle == /\ geoNodes = <<>>
           /\ geoReturned = <<>>
           /\ CallIdle

(* no error: the fields the catch block of makeClaudeAPICall reads (lines 92-111) *)
NoError == [status |-> 0, type |-> "", xShouldRetry |-> "", code |-> "", message |-> <<>>]

(* an invocation of makeClaudeAPICall that has not been made *)
IdleCall == [phase |-> "idle", retryCount |-> 0, requests |-> 0, checks |-> 0,
             until |-> 0, error |-> NoError]

(* the module as loaded (lines 21-22), no call made *)
ServerIdle == /\ tokenUsage = 0
              /\ lastResetTime = 0
              /\ now = 0
              /\ apiCalls = [c \in 1..MaxCalls |-> IdleCall]

CtxIdle == /\ ctxNodes = <<>>
           /\ ctxEdges = <<>>
           /\ ctxCalls = <<>>
           /\ visitedNodes = <<>>
           /\ context = <<>>

Init == CanvasInit /\ ServerIdle /\ GeoIdle /\ CtxIdle

(* the load-or-initialize effect (lines 250-263) calls initializeCanvas, which
   awaits claudeApi.processQuery *)
InitializeStart ==
    /\ IF issued = 0 THEN budget' = budget
       ELSE budget < MaxUser /\ budget' = budget + 1
    /\ issued' = issued + 1
    /\ inflight' = inflight \cup {[kind |-> "init", sess |-> issued + 1]}
    /\ UNCHANGED <<nodes, edges, pending, tracker, timers, session, batches, marked, cleaned, generated, hoverVars, geoVars, ctxVars, serverVars>>

(* initializeCanvas after the await (lines 413-559): the answer of the service, or
   the mock data when the call failed; then setNodes(initialNodes), setEdges(initialEdges) *)
InitializeDone(r, success, followUpQuestions) ==
    /\ r \in inflight /\ r.kind = "init"
    /\ Len(pending) < MaxPending
    /\ inflight' = inflight \ {r}
    /\ pending' = Append(pending,
          << [op |-> "setNodes", sess |-> r.sess,
              val |-> initialNodes(followUpQuestions, IF success THEN "answer" ELSE "mock answer", r.sess)],
             [op |-> "setEdges", val |-> initialEdges(followUpQuestions)] >>)
    /\ UNCHANGED <<nodes, edges, tracker, timers, session, issued, batches, marked, budget, cleaned, generated, hoverVars, geoVars, ctxVars, serverVars>>

(* FollowUpNode.handleClick on an unanswered question (lines 171-200): after 100 ms
   onFollowUp(id, question), which is handleFollowUpQuestion up to its await of
   claudeApi.processFollowUp (lines 653-676).  The isProcessing guard (line 149)
   is lifted by a timer 1.1 s after the click whether or not the response has
   arrived, so in this untimed model it never disables a later click. *)
ClickFollowUp(i) ==
    /\ budget < MaxUser
    /\ nodes[i].type = "followUp" /\ ~nodes[i].isInput
    /\ ~nodes[i].hasBeenAnswered /\ ~nodes[i].isCustom
    /\ budget' = budget + 1
    /\ inflight' = inflight \cup {[kind |-> "followUp", n |-> budget + 1, id |-> nodes[i].id,
                                   question |-> nodes[i].question, origin |-> nodes[i].sess]}
    /\ UNCHANGED <<nodes, edges, pending, tracker, timers, session, issued, batches, marked, cleaned, generated, hoverVars, geoVars, ctxVars, serverVars>>

(* FollowUpNode.handleSubmitCustom on an input node (lines 208-274): after 100 ms
   onFollowUp(id, questionToSubmit) *)
SubmitCustom(i) ==
    /\ budget < MaxUser
    /\ nodes[i].type = "followUp" /\ nodes[i].isInput
    /\ budget' = budget + 1
    /\ inflight' = inflight \cup {[kind |-> "followUp", n |-> budget + 1, id |-> nodes[i].id,
                                   question |-> "typed", origin |-> nodes[i].sess]}
    /\ UNCHANGED <<nodes, edges, pending, tracker, timers, session, issued, batches, marked, cleaned, generated, hoverVars, geoVars, ctxVars, serverVars>>

(* handleFollowUpQuestion after the await (lines 689-804); isCustom is never passed
   by FollowUpNode, so it has its default *)
isCustomDefault == FALSE

FollowUpResponse(r, success, followUpQuestions) ==
    /\ r \in inflight /\ r.kind = "followUp"
    /\ Len(pending) < MaxPending
    /\ inflight' = inflight \ {r}
    /\ pending' = Append(pending,
          << [op |-> "answer", id |-> r.id, question |-> r.question, isCustom |-> isCustomDefault,
              answer |-> IF success THEN "answer" ELSE "mock answer",
              followUps |-> IF success THEN followUpQuestions ELSE mockFollowUps,
              mock |-> ~success, origin |-> r.origin] >>)
    /\ timers' = IF success
                 THEN timers \cup {generateTimer("explicit", r.id, followUpQuestions, r.origin)}
                 ELSE timers
    /\ UNCHANGED <<nodes, edges, tracker, session, issued, batches, marked, budget, cleaned, generated, hoverVars, geoVars, ctxVars, serverVars>>

(* a tracker check that lets every call through *)
alreadyGeneratedNever(parentId, followUpQuestions) == FALSE

(* handleGenerateChildNodes (lines 814-1014), called by a timer *)
alreadyGenerated(parentId, followUpQuestions) ==
    parentId \in tracker /\ Len(followUpQuestions) > 0

(* a handler that does not add the id to the tracker *)
markGeneratedSkipped(parentId) == tracker

(* a handler that replaces the tracker by the id *)
markGeneratedOnly(parentId) == {parentId}

(* nodesWithGeneratedChildren.current.add(parentId) (lines 846, 861) *)
markGenerated(parentId) == tracker \cup {parentId}

Mark(parentId) ==
    /\ tracker' = markGenerated(parentId)
    /\ marked' = IF parentId \in tracker THEN marked
                 ELSE marked \cup {[id |-> parentId, sess |-> session]}

GenerateTimer(t) ==
    /\ t \in timers /\ t.kind = "generate"
    /\ IF alreadyGenerated(t.id, t.followUps)
       THEN /\ timers' = timers \ {t}
            /\ UNCHANGED <<pending, tracker, batches, marked, generated>>
       ELSE IF Len(t.followUps) = 0
       THEN /\ Mark(t.id)
            /\ timers' = timers \ {t}
            /\ UNCHANGED <<pending, batches, generated>>
       ELSE /\ Mark(t.id)
            /\ batches' = (t.id :> (IF t.id \in DOMAIN batches THEN batches[t.id] + 1 ELSE 1)) @@ batches
            /\ generated' = (t.id :> Len(t.followUps)) @@ generated
            /\ LET u == [op |-> "generate", parentId |-> t.id, followUps |-> t.followUps,
                         origin |-> t.origin]
               IN \E eager \in (IF pending = <<>> THEN BOOLEAN ELSE {FALSE}) :
                    IF eager
                    THEN \* no update was pending: React runs the updater at once and keeps
                         \* its result; the nested setNodes, queued before it, is overridden
                         LET r == applyGenerate(u, [renderState(timers \ {t}) EXCEPT
                                                       !.tracker = markGenerated(t.id)])
                         IN /\ timers' = r.st.timers
                            /\ pending' = IF r.more = <<>> THEN <<>> ELSE << r.more >>
                    ELSE /\ Len(pending) < MaxPending
                         /\ timers' = timers \ {t}
                         /\ pending' = Append(pending, <<u>>)
    /\ UNCHANGED <<nodes, edges, inflight, session, issued, budget, cleaned, hoverVars, geoVars, ctxVars, serverVars>>

(* the 100 ms timer of handleGenerateChildNodes (lines 980-1013) *)
ChildEdgesTimer(t) ==
    /\ t \in timers /\ t.kind = "childEdges"
    /\ Len(pending) < MaxPending
    /\ timers' = timers \ {t}
    /\ pending' = Append(pending, <<[op |-> "childEdges", parentId |-> t.parentId, ids |-> t.ids]>>)
    /\ UNCHANGED <<nodes, edges, tracker, inflight, session, issued, batches, marked, budget, cleaned, generated, hoverVars, geoVars, ctxVars, serverVars>>

(* handleCreateCustomFollowUp (lines 1029-1210): the "Ask follow-up" button of a
   Response node or of an answered FollowUp node *)
ClickCreateCustomFollowUp(i) ==
    /\ budget < MaxUser
    /\ Len(pending) < MaxPending
    /\ \/ nodes[i].type = "response"
       \/ /\ nodes[i].type = "followUp" /\ ~nodes[i].isInput
          /\ nodes[i].hasBeenAnswered /\ nodes[i].answer # ""
    /\ budget' = budget + 1
    /\ pending' = Append(pending,
          << [op |-> "customNode", parentId |-> nodes[i].id,
              newNodeId |-> <<"follow", "up", "input">> \o nodes[i].id \o <<Tok(budget + 1), "r">>] >>)
    /\ UNCHANGED <<nodes, edges, tracker, timers, inflight, session, issued, batches, marked, cleaned, generated, hoverVars, geoVars, ctxVars, serverVars>>

(* the 50 ms timer of handleCreateCustomFollowUp (lines 1111-1191) *)
CustomEdgeTimer(t) ==
    /\ t \in timers /\ t.kind = "customEdge"
    /\ Len(pending) < MaxPending
    /\ timers' = timers \ {t}
    /\ pending' = IF t.parentNode
                  THEN Append(pending, <<[op |-> "customEdge", parentId |-> t.parentId,
                                          newNodeId |-> t.newNodeId]>>)
                  ELSE pending
    /\ UNCHANGED <<nodes, edges, tracker, inflight, session, issued, batches, marked, budget, cleaned, generated, hoverVars, geoVars, ctxVars, serverVars>>

(* handleTopicClick(parentNodeId, topic) (lines 1487-1554).  The random angle and
   distance (300..400) are drawn from TopicOffsets. *)
TopicOffsets == {<<350, 0>>, <<0, -300>>}

handleTopicClick(parentNodeId, topic, off) ==
    LET pi == FindIdx(nodes, LAMBDA n : n.id = parentNodeId)
        topicNodeId == <<"topic">> \o topic \o <<Tok(budget + 1)>>
    IN IF pi = 0 THEN pending
       ELSE Append(pending,
            << [op |-> "appendNodes",
                val |-> <<MkNode(topicNodeId, "topic",
                                 Pos(nodes[pi].position.x + off[1], nodes[pi].position.y + off[2]),
                                 "", FALSE, FALSE, nodes[pi].sess, nodes[pi].sess)>>],
               [op |-> "appendEdges",
                val |-> <<[id |-> <<"edge">> \o parentNodeId \o <<"to">> \o topicNodeId,
                           source |-> parentNodeId, target |-> topicNodeId,
                           className |-> ""]>>] >>)

(* a click on a highlighted term: FollowUpNode calls onTopicClick(id, topic)
   (line 355), ResponseNode calls onTopicClick(topic, id) (line 247) *)
ClickTopic(i, off) ==
    /\ budget < MaxUser
    /\ Len(pending) < MaxPending
    /\ \/ nodes[i].type = "response"
       \/ /\ nodes[i].type = "followUp" /\ ~nodes[i].isInput /\ ~nodes[i].isCustom
          /\ nodes[i].hasBeenAnswered /\ nodes[i].answer # ""
    /\ budget' = budget + 1
    /\ pending' = IF nodes[i].type = "response"
                  THEN handleTopicClick(<<"Term">>, nodes[i].id, off)
                  ELSE handleTopicClick(nodes[i].id, <<"term">>, off)
    /\ UNCHANGED <<nodes, edges, tracker, timers, inflight, session, issued, batches, marked, cleaned, generated, hoverVars, geoVars, ctxVars, serverVars>>

(* resetCanvas (lines 1381-1385) *)
ResetCanvas ==
    /\ budget < MaxUser
    /\ Len(pending) < MaxPending
    /\ budget' = budget + 1
    /\ issued' = issued + 1
    /\ pending' = Append(pending, << [op |-> "setNodes", sess |-> issued + 1, val |-> <<>>],
                                      [op |-> "setEdges", val |-> <<>>] >>)
    /\ tracker' = {}
    /\ marked' = {}
    /\ batches' = EmptyFn
    /\ generated' = EmptyFn
    /\ UNCHANGED <<nodes, edges, timers, inflight, session, cleaned, hoverVars, geoVars, ctxVars, serverVars>>

(* the duplicate-edge effect (lines 266-321), which runs after a render that
   changed the edge list *)
hasDuplicates(es) ==
    \E i, j \in 1..Len(es) : i < j /\ combo(es[i]) = combo(es[j])

(* the auto-generate effect of a FollowUpNode whose answer changed in the render
   (FollowUpNode.tsx lines 63-121: hasBeenAnswered && answer && expandOnAnswer):
   a 200 ms timer that calls onGenerateChildNodes(id, question, answer,
   childQuestions || []) with the data the node was rendered with *)
autoGenerateEffect(renderedNodes, answered) ==
    {generateTimer("effect", renderedNodes[i].id, renderedNodes[i].childQuestions,
                   renderedNodes[i].origin) :
        i \in {k \in 1..Len(renderedNodes) :
                 /\ renderedNodes[k].id \in answered
                 /\ renderedNodes[k].hasBeenAnswered /\ renderedNodes[k].answer # ""}}

(* the effects that depend on [edges], in the order of their declaration: the
   duplicate-edge cleanup and the edge highlight *)
edgeEffects(st) ==
    IF ~st.touched THEN <<>>
    ELSE (IF hasDuplicates(st.edges) THEN <<[op |-> "cleanup"]>> ELSE <<>>)
         \o (IF needsUpdate(st.edges, highlightedEdgeIds)
             THEN <<[op |-> "highlight", map |-> highlightedEdgeIds]>> ELSE <<>>)

(* handleNodeHover (lines 401-403) with the effect on [hoveredNodeId] (lines
   350-356) and the highlight effect it triggers; nodeId = <<>> is null *)
HoverNode(nodeId) ==
    /\ hovers < MaxHover
    /\ Len(pending) < MaxPending
    /\ nodeId # hoveredNodeId
    /\ hovers' = hovers + 1
    /\ hoveredNodeId' = nodeId
    /\ highlightedEdgeIds' = IF nodeId = <<>> THEN {} ELSE findPathToRoot(nodeId, edges)
    /\ pending' = IF needsUpdate(edges, highlightedEdgeIds')
                  THEN Append(pending, <<[op |-> "highlight", map |-> highlightedEdgeIds']>>)
                  ELSE pending
    /\ UNCHANGED <<nodes, edges, tracker, timers, inflight, session, issued, batches, marked,
                   budget, cleaned, generated, geoVars, ctxVars, serverVars>>

(* a render: the queued updates are applied, then the effects of the nodes and the
   effect that depends on [edges] run *)
Render ==
    /\ pending # <<>>
    /\ \E st \in {applyQueue(Flatten(pending), renderState(timers))} :
          /\ nodes' = st.nodes
          /\ edges' = st.edges
          /\ timers' = st.timers \cup autoGenerateEffect(st.nodes, st.answered)
          /\ session' = st.session
          /\ pending' = IF edgeEffects(st) = <<>> THEN <<>> ELSE << edgeEffects(st) >>
          /\ cleaned' = (cleaned \/ st.cleaned)
          /\ tracker' = st.tracker
          /\ marked' = st.marked
    /\ UNCHANGED <<inflight, issued, batches, budget, generated, hoverVars, geoVars, ctxVars, serverVars>>

Next ==
    \/ InitializeStart
    \/ \E r \in inflight : \/ \E f \in ApiFollowUps : InitializeDone(r, TRUE, f)
                           \/ InitializeDone(r, FALSE, initMockFollowUps)
    \/ \E i \in 1..Len(nodes) : ClickFollowUp(i)
    \/ \E i \in 1..Len(nodes) : SubmitCustom(i)
    \/ \E r \in inflight : \/ \E f \in ApiFollowUps : FollowUpResponse(r, TRUE, f)
                           \/ FollowUpResponse(r, FALSE, <<>>)
    \/ \E t \in timers : GenerateTimer(t)
    \/ \E t \in timers : ChildEdgesTimer(t)
    \/ \E i \in 1..Len(nodes) : ClickCreateCustomFollowUp(i)
    \/ \E t \in timers : CustomEdgeTimer(t)
    \/ \E i \in 1..Len(nodes), off \in TopicOffsets : ClickTopic(i, off)
    \/ ResetCanvas
    \/ Render

Spec == Init /\ [][Next]_vars

(* Liveness scenario: the canvas with the pointer moving over the nodes, and
   with the scheduling the runtime gives it: a queued update is rendered, a
   timer that was set fires, a request that was sent is answered or fails.
   Nothing obliges the user to act. *)
LiveNext ==
    \/ (budget < MaxLiveUser /\ InitializeStart)
    \/ \E r \in inflight : \/ \E f \in ApiFollowUps : InitializeDone(r, TRUE, f)
                           \/ InitializeDone(r, FALSE, initMockFollowUps)
    \/ \E i \in 1..Len(nodes) : (budget < MaxLiveUser /\ ClickFollowUp(i))
    \/ \E r \in inflight : \/ \E f \in ApiFollowUps : FollowUpResponse(r, TRUE, f)
                           \/ FollowUpResponse(r, FALSE, <<>>)
    \/ \E t \in timers : GenerateTimer(t)
    \/ \E t \in timers : ChildEdgesTimer(t)
    \/ \E i \in 1..Len(nodes) : (budget < MaxLiveUser /\ ClickCreateCustomFollowUp(i))
    \/ \E t \in timers : CustomEdgeTimer(t)
    \/ \E i \in 1..Len(nodes), off \in TopicOffsets : (budget < MaxLiveUser /\ ClickTopic(i, off))
    \/ \E id \in NodeIds(nodes) \cup {<<>>} : HoverNode(id)
    \/ Render

Fairness ==
    /\ WF_vars(Render)
    /\ WF_vars(\E t \in timers : GenerateTimer(t))
    /\ WF_vars(\E t \in timers : ChildEdgesTimer(t))
    /\ WF_vars(\E t \in timers : CustomEdgeTimer(t))
    /\ WF_vars(\E r \in inflight : \/ \E f \in ApiFollowUps : InitializeDone(r, TRUE, f)
                                   \/ InitializeDone(r, FALSE, initMockFollowUps))
    /\ WF_vars(\E r \in inflight : \/ \E f \in ApiFollowUps : FollowUpResponse(r, TRUE, f)
                                   \/ FollowUpResponse(r, FALSE, <<>>))

SpecLive == Init /\ [][LiveNext]_vars /\ Fairness

(***************************************************************************)
(* Layout scenario: calculateNodePositions called again and again, every   *)
(* returned position added to existingNodes before the next call.  The     *)
(* first node is the one calculateNodePositions(null, ...) places.         *)
(***************************************************************************)
GeoNode(n, p) == [id |-> <<"n", Tok(n)>>, position |-> p]

GeoInit ==
    /\ CanvasInit /\ ServerIdle /\ CtxIdle /\ CallIdle
    /\ geoNodes = <<GeoNode(1, calculateNodePositions(<<>>, 1, <<>>)[1])>>
    /\ geoReturned = calculateNodePositions(<<>>, 1, <<>>)

GeoCall(parentIdx, childrenCount) ==
    LET ps == calculateNodePositions(geoNodes[parentIdx].id, childrenCount, geoNodes)
    IN /\ Len(geoNodes) + Len(ps) <= MaxGeoNodes
       /\ geoNodes' = geoNodes \o [i \in 1..Len(ps) |-> GeoNode(Len(geoNodes) + i, ps[i])]
       /\ geoReturned' = geoReturned \o ps
       /\ UNCHANGED <<canvasVars, ctxVars, serverVars, callVars>>

GeoNext == \E parentIdx \in 1..Len(geoNodes), c \in 1..MaxGeoChildren : GeoCall(parentIdx, c)

SpecGeo == GeoInit /\ [][GeoNext]_vars

(***************************************************************************)
(* Context scenario: buildAncestorContext (lines 615-651) on node and edge *)
(* lists drawn from a chain root -> A -> B -> C, with edges repeated, an   *)
(* edge that closes a cycle, a second parent and an edge whose source is   *)
(* not in the node list.  getParentContext is recursive; ctxCalls holds    *)
(* the calls still to be made, the next one first, so that one step is one *)
(* call up to its forEach.                                                 *)
(***************************************************************************)
ctxRoot == responseId
ctxA == <<"followup", "1">>
ctxB == childId(ctxA, 0)
ctxC == childId(ctxB, 0)
ctxGone == <<"gone">>

CtxNode(id, question, answer, content) ==
    [MkNode(id, IF id = ctxRoot THEN "response" ELSE "followUp", Pos(0, 0), question,
            FALSE, FALSE, 1, 0)
        EXCEPT !.answer = answer, !.content = content, !.hasBeenAnswered = answer # ""]

(* the chain's nodes; C is the question being asked, answered or not; A may be
   missing from the node list *)
CtxNodeLists ==
    {<<CtxNode(ctxRoot, "", "", "R")>> \o a
        \o <<CtxNode(ctxB, "qB", "aB", ""), CtxNode(ctxC, "qC", ansC, "")>> :
       a \in {<<>>, <<CtxNode(ctxA, "qA", "aA", "")>>}, ansC \in {"", "aC"}}

CtxPairs ==
    {createEdge(ctxRoot, ctxA), createEdge(ctxA, ctxB), createEdge(ctxB, ctxC),
     createEdge(ctxC, ctxA), createEdge(ctxRoot, ctxC), createEdge(ctxGone, ctxB)}

CtxEdgeLists == UNION {[1..n -> CtxPairs] : n \in 0..MaxCtxEdges}

CtxInit ==
    /\ CanvasInit /\ ServerIdle /\ GeoIdle
    /\ ctxNodes \in CtxNodeLists
    /\ ctxEdges \in CtxEdgeLists
    /\ ctxCalls \in {<<id>> : id \in {ctxRoot, ctxA, ctxB, ctxC}}
    /\ visitedNodes = <<>>
    /\ context = <<>>

(* a walk that takes no node for visited *)
alreadyVisitedNever(currentNodeId) == FALSE

(* visitedNodes.has(currentNodeId) (line 625) *)
alreadyVisited(currentNodeId) == currentNodeId \in Range(visitedNodes)

(* a node's contribution without its answer *)
nodeContextQuestionOnly(node) ==
    IF node.question # "" THEN <<[label |-> "Question", text |-> node.question]>> ELSE <<>>

(* `Question: ${node.data.question}` and `Answer: ${node.data.answer ||
   node.data.content}` (lines 633-638) *)
nodeContext(node) ==
    (IF node.question # "" THEN <<[label |-> "Question", text |-> node.question]>> ELSE <<>>)
    \o (IF node.answer # "" \/ node.content # ""
        THEN <<[label |-> "Answer",
                text |-> IF node.answer # "" THEN node.answer ELSE node.content]>>
        ELSE <<>>)

(* an array that takes new entries at its front *)
pushFront(array, entries) == entries \o array

(* context.push (lines 634, 637) *)
push(array, entries) == array \o entries

(* the sources of the edges that point at the node, in the order of the edge list
   (lines 641-644) *)
parentSources(currentNodeId) ==
    LET parentEdges == SelectSeq(ctxEdges, LAMBDA edge : edge.target = currentNodeId)
    IN [k \in 1..Len(parentEdges) |-> parentEdges[k].source]

(* getParentContext(currentNodeId) returns at the visited check (line 625) *)
getParentContextVisited ==
    /\ ctxCalls # <<>>
    /\ alreadyVisited(Head(ctxCalls))
    /\ ctxCalls' = Tail(ctxCalls)
    /\ UNCHANGED <<ctxNodes, ctxEdges, visitedNodes, context, canvasVars, geoVars, serverVars>>

(* getParentContext(currentNodeId) finds no node (lines 626-630) *)
getParentContextNoNode ==
    /\ ctxCalls # <<>>
    /\ ~alreadyVisited(Head(ctxCalls))
    /\ FindIdx(ctxNodes, LAMBDA n : n.id = Head(ctxCalls)) = 0
    /\ visitedNodes' = Append(visitedNodes, Head(ctxCalls))
    /\ ctxCalls' = Tail(ctxCalls)
    /\ UNCHANGED <<ctxNodes, ctxEdges, context, canvasVars, geoVars, serverVars>>

(* getParentContext(currentNodeId) adds the node's content and goes on with the
   sources of its incoming edges (lines 626-644) *)
getParentContextNode ==
    /\ ctxCalls # <<>>
    /\ ~alreadyVisited(Head(ctxCalls))
    /\ FindIdx(ctxNodes, LAMBDA n : n.id = Head(ctxCalls)) # 0
    /\ visitedNodes' = Append(visitedNodes, Head(ctxCalls))
    /\ context' = push(context,
                       nodeContext(ctxNodes[FindIdx(ctxNodes, LAMBDA n : n.id = Head(ctxCalls))]))
    /\ ctxCalls' = parentSources(Head(ctxCalls)) \o Tail(ctxCalls)
    /\ UNCHANGED <<ctxNodes, ctxEdges, canvasVars, geoVars, serverVars>>

CtxNext ==
    \/ getParentContextVisited
    \/ getParentContextNoNode
    \/ getParentContextNode

(* the call runs to its end: nothing suspends it *)
SpecCtx == CtxInit /\ [][CtxNext]_vars /\ WF_vars(CtxNext)

(***************************************************************************)
(* Placement scenario: one call of calculateNodePositions (lines 55-126),  *)
(* on node lists with and without the parent, with and without numeric    *)
(* positions, and on edge lists with a chain, a cycle through the parent,  *)
(* a self-loop and a source that is no node.  The recursion of             *)
(* calculateNodeDepth (lines 129-145) is stepped call by call; the engine  *)
(* ends a recursion that exceeds its call stack with a RangeError, which   *)
(* the catch of line 141 turns into the result 0.                          *)
(***************************************************************************)
ArgNodePool ==
    {GeoNode(1, Pos(650, 400)), GeoNode(1, NoPosition),
     GeoNode(2, Pos(900, 400)), GeoNode(2, Pos(900, 300)), GeoNode(2, Pos(400, 400)),
     GeoNode(3, Pos(1250, 500))}

ArgNodeLists == UNION {[1..n -> ArgNodePool] : n \in 0..MaxArgNodes}

ArgEdgePool ==
    {createEdge(<<"n", "2">>, <<"n", "1">>), createEdge(<<"n", "1">>, <<"n", "2">>),
     createEdge(<<"n", "1">>, <<"n", "1">>), createEdge(<<"n", "3">>, <<"n", "2">>),
     createEdge(<<"gone">>, <<"n", "1">>)}

ArgEdgeLists == UNION {[1..n -> ArgEdgePool] : n \in 0..MaxArgEdges}

PlaceInit ==
    /\ CanvasInit /\ ServerIdle /\ CtxIdle
    /\ geoNodes = <<>> /\ geoReturned = <<>>
    /\ argNodes \in ArgNodeLists
    /\ argEdges \in ArgEdgeLists
    /\ argParent \in {<<>>, <<"n", "1">>, <<"n", "2">>, <<"n", "9">>}
    /\ argCount \in -1..MaxArgChildren
    /\ argPosition = Pos(0, 0)
    /\ pc = "called"
    /\ depthNode = <<>>
    /\ depthCalls = 0
    /\ retPositions = <<>>
    /\ retPosition = Pos(0, 0)
    /\ retAttempts = 0
    /\ retEdges = <<>>

placeUnchanged ==
    UNCHANGED <<canvasVars, ctxVars, serverVars, geoNodes, geoReturned, argNodes, argEdges, argParent,
                argCount, argPosition, retPosition, retAttempts, retEdges>>

(* if (!parentNodeId) return [{ x: 650, y: 400 }] (lines 74-76) *)
returnRoot ==
    /\ pc = "called"
    /\ argParent = <<>>
    /\ retPositions' = calculateNodePositions(argParent, argCount, argNodes)
    /\ pc' = "returned"
    /\ UNCHANGED <<depthNode, depthCalls>>
    /\ placeUnchanged

(* the parent is not found or has no numeric position (lines 79-83) *)
returnUnresolved ==
    /\ pc = "called"
    /\ argParent # <<>>
    /\ resolveParent(argParent, argNodes) = 0
    /\ retPositions' = calculateNodePositions(argParent, argCount, argNodes)
    /\ pc' = "returned"
    /\ UNCHANGED <<depthNode, depthCalls>>
    /\ placeUnchanged

(* calculateNodeDepth(parentNode.id, ...) is called (line 86) *)
enterDepth ==
    /\ pc = "called"
    /\ argParent # <<>>
    /\ resolveParent(argParent, argNodes) # 0
    /\ pc' = "depth"
    /\ depthNode' = argParent
    /\ depthCalls' = 1
    /\ UNCHANGED retPositions
    /\ placeUnchanged

(* edges.find(edge => edge.target === nodeId) (line 132): 0 for undefined *)
parentEdge(nodeId, es) == FindIdx(es, LAMBDA edge : edge.target = nodeId)

(* return 1 + calculateNodeDepth(parentEdge.source, nodes, edges) (line 140) *)
calculateNodeDepthParent ==
    /\ pc = "depth"
    /\ parentEdge(depthNode, argEdges) # 0
    /\ depthCalls < MaxStack
    /\ depthNode' = argEdges[parentEdge(depthNode, argEdges)].source
    /\ depthCalls' = depthCalls + 1
    /\ UNCHANGED <<pc, retPositions>>
    /\ placeUnchanged

(* no parent edge: depth 0 (lines 135-137); the calls return one after the other *)
calculateNodeDepthRoot ==
    /\ pc = "depth"
    /\ parentEdge(depthNode, argEdges) = 0
    /\ pc' = "place"
    /\ UNCHANGED <<depthNode, depthCalls, retPositions>>
    /\ placeUnchanged

(* the call stack is exhausted: the RangeError of the next call is caught (lines
   141-144), the calls return one after the other *)
calculateNodeDepthOverflow ==
    /\ pc = "depth"
    /\ parentEdge(depthNode, argEdges) # 0
    /\ depthCalls = MaxStack
    /\ pc' = "place"
    /\ UNCHANGED <<depthNode, depthCalls, retPositions>>
    /\ placeUnchanged

(* the loop over the children and the return (lines 89-120) *)
placeChildren ==
    /\ pc = "place"
    /\ retPositions' = calculateNodePositions(argParent, argCount, argNodes)
    /\ pc' = "returned"
    /\ UNCHANGED <<depthNode, depthCalls>>
    /\ placeUnchanged

(* calculateNodePositions is called once more with the same arguments *)
callAgain ==
    /\ pc = "returned"
    /\ retPositions' = calculateNodePositions(argParent, argCount, argNodes)
    /\ pc' = "returned twice"
    /\ UNCHANGED <<depthNode, depthCalls>>
    /\ placeUnchanged

PlaceNext ==
    \/ returnRoot
    \/ returnUnresolved
    \/ enterDepth
    \/ calculateNodeDepthParent
    \/ calculateNodeDepthRoot
    \/ calculateNodeDepthOverflow
    \/ placeChildren
    \/ callAgain

(* the call is synchronous: nothing suspends it *)
SpecPlace == PlaceInit /\ [][PlaceNext]_vars /\ WF_vars(PlaceNext)

(***************************************************************************)
(* Overlap scenario: one call of avoidOverlap (lines 148-220) with a       *)
(* numeric position.  The existing nodes are a column of rows one grid     *)
(* step apart, the first on the row of the position, shifted to the right  *)
(* of it, with or without a node far below and a node without position;    *)
(* or a single node near the position.                                     *)
(***************************************************************************)
OverlapPosition == Pos(900, 400)

columnNodes(rows, shift, far, invalid) ==
    (IF invalid THEN <<GeoNode(0, NoPosition)>> ELSE <<>>)
    \o [j \in 1..rows |->
          GeoNode(1, Pos(OverlapPosition.x + shift,
                         OverlapPosition.y + (j - 1) * GRID_VERTICAL_SPACING))]
    \o (IF far THEN <<GeoNode(2, Pos(OverlapPosition.x + 2000, OverlapPosition.y + 3000))>>
        ELSE <<>>)

OverlapNodeLists ==
    {columnNodes(rows, shift, far, invalid) :
        rows \in 0..MaxRows, shift \in {0, 125, 174, 175}, far \in BOOLEAN, invalid \in BOOLEAN}
    \cup {<<GeoNode(1, Pos(OverlapPosition.x + dx, OverlapPosition.y + dy))>> :
            dx \in {-175, -174, 0, 174, 175}, dy \in {-100, -99, 0, 99, 100}}

OverlapInit ==
    /\ CanvasInit /\ ServerIdle /\ CtxIdle
    /\ geoNodes = <<>> /\ geoReturned = <<>>
    /\ argNodes \in OverlapNodeLists
    /\ argEdges = <<>>
    /\ argParent = <<>>
    /\ argCount = 0
    /\ argPosition = OverlapPosition
    /\ pc = "overlap"
    /\ depthNode = <<>>
    /\ depthCalls = 0
    /\ retPositions = <<>>
    /\ retPosition = Pos(0, 0)
    /\ retAttempts = 0
    /\ retEdges = <<>>

(* avoidOverlap(position, existingNodes) runs and returns *)
avoidOverlapCall ==
    /\ pc = "overlap"
    /\ retPosition' = avoidOverlap(argPosition, argNodes)
    /\ retAttempts' = probesMade(argPosition, argNodes)
    /\ pc' = "resolved"
    /\ UNCHANGED <<canvasVars, ctxVars, serverVars, geoNodes, geoReturned, argNodes, argEdges, argParent,
                   argCount, argPosition, depthNode, depthCalls, retPositions, retEdges>>

OverlapNext == avoidOverlapCall

SpecOverlap == OverlapInit /\ [][OverlapNext]_vars /\ WF_vars(OverlapNext)

(***************************************************************************)
(* Cleanup scenario: the updater of the duplicate-edge cleanup (lines      *)
(* 299-319) applied to an edge list, and once more to what it returned.    *)
(* The edges are those of the canvas: from the response node to a          *)
(* follow-up and to the custom follow-up, from the follow-up to its child, *)
(* each as createEdge builds it and with the id the custom follow-up edge  *)
(* gets (line 1116), so that edges with the same source and target differ. *)
(***************************************************************************)
toEdge(source, target) ==
    [id |-> <<"edge">> \o source \o <<"to">> \o target \o <<"u">>,
     source |-> source, target |-> target, className |-> ""]

CleanPairs == {<<responseId, ctxA>>, <<responseId, customFollowUpId>>, <<ctxA, ctxB>>}

CleanEdgePool ==
    {createEdge(pr[1], pr[2]) : pr \in CleanPairs} \cup {toEdge(pr[1], pr[2]) : pr \in CleanPairs}

CleanEdgeLists == UNION {[1..n -> CleanEdgePool] : n \in 0..MaxCleanEdges}

CleanInit ==
    /\ CanvasInit /\ ServerIdle /\ CtxIdle
    /\ geoNodes = <<>> /\ geoReturned = <<>>
    /\ argNodes = <<>>
    /\ argEdges \in CleanEdgeLists
    /\ argParent = <<>>
    /\ argCount = 0
    /\ argPosition = Pos(0, 0)
    /\ pc = "edges"
    /\ depthNode = <<>>
    /\ depthCalls = 0
    /\ retPositions = <<>>
    /\ retPosition = Pos(0, 0)
    /\ retAttempts = 0
    /\ retEdges = <<>>

cleanUnchanged ==
    UNCHANGED <<canvasVars, ctxVars, serverVars, geoNodes, geoReturned, argNodes, argEdges, argParent,
                argCount, argPosition, depthNode, depthCalls, retPositions, retPosition,
                retAttempts>>

(* the updater runs on the edge list *)
cleanupFirstPass ==
    /\ pc = "edges"
    /\ retEdges' = cleanupEdges(argEdges)
    /\ pc' = "cleaned"
    /\ cleanUnchanged

(* the updater runs on the list it returned *)
cleanupSecondPass ==
    /\ pc = "cleaned"
    /\ retEdges' = cleanupEdges(retEdges)
    /\ pc' = "cleaned twice"
    /\ cleanUnchanged

CleanNext ==
    \/ cleanupFirstPass
    \/ cleanupSecondPass

SpecClean == CleanInit /\ [][CleanNext]_vars /\ WF_vars(CleanNext)

(* C2: no two returned positions are closer than NODE_WIDTH+PADDING in x and
   at the same time closer than NODE_HEIGHT+PADDING in y *)
C2_NoOverlapFullExtent ==
    \A i, j \in 1..Len(geoReturned) :
        i < j => ~( /\ Abs(geoReturned[i].x - geoReturned[j].x) < NODE_WIDTH + PADDING
                    /\ Abs(geoReturned[i].y - geoReturned[j].y) < NODE_HEIGHT + PADDING )

-----------------------------------------------------------------------------
(* a call of handleGenerateChildNodes: the step that takes its timer *)
Called(t) == t \in timers /\ t.kind = "generate" /\ t \notin timers'

(* C1: of the calls of handleGenerateChildNodes for one parent with a non-empty
   follow-up list, one only passes the tracker check and creates a batch; a call
   that finds the parent in the tracker changes neither the node list, the edge
   list, the tracker nor the queued updates *)
C1_SecondCallNoOp ==
    /\ [](\A p \in DOMAIN batches : batches[p] <= 1)
    /\ [][\A t \in timers :
            (Called(t) /\ t.id \in tracker /\ Len(t.followUps) > 0)
            => (nodes' = nodes /\ edges' = edges /\ tracker' = tracker /\ pending' = pending)]_vars

(* both triggers of one answered node (the 500 ms timer of handleFollowUpQuestion
   and the timer of the auto-generate effect) have called, one batch was made *)
C1_Witness ==
    \E i \in 1..Len(nodes) :
        /\ nodes[i].hasBeenAnswered /\ nodes[i].answer = "answer"
        /\ Len(nodes[i].childQuestions) > 0
        /\ nodes[i].id \in DOMAIN batches /\ batches[nodes[i].id] = 1
        /\ ~\E t \in timers : t.kind = "generate" /\ t.id = nodes[i].id
        /\ ~\E r \in inflight : r.kind = "followUp" /\ r.id = nodes[i].id
        /\ pending = <<>>
        /\ budget = 1

(* the edges of a list with the source and target of e *)
SamePair(es, e) == {j \in 1..Len(es) : es[j].source = e.source /\ es[j].target = e.target}

(* C3: the duplicate-edge cleanup, applied to the edge list the effect saw, keeps
   exactly one edge for every (source, target) pair of that list; and the render
   that runs the cleanup alone makes its result the edge list *)
C3_OneEdgePerPair ==
    /\ [](\A i \in 1..Len(edges) : Cardinality(SamePair(cleanupEdges(edges), edges[i])) = 1)
    /\ [][(pending = << <<[op |-> "cleanup"]>> >> /\ timers' = timers /\ inflight' = inflight
            /\ budget' = budget /\ issued' = issued)
          => \A i \in 1..Len(edges) : Cardinality(SamePair(edges', edges[i])) = 1]_vars

(* a cleanup has removed an edge, the list has edges of more than one source, and none twice *)
C3_Witness ==
    /\ cleaned /\ pending = <<>>
    /\ ~hasDuplicates(edges)
    /\ \E i, j \in 1..Len(edges) : edges[i].source # edges[j].source

(* C4: no two nodes of the node list have the same id *)
C4_UniqueNodeIds ==
    \A i, j \in 1..Len(nodes) : i < j => nodes[i].id # nodes[j].id

(* C5: every id the tracker holds was marked while the session now displayed
   was displayed *)
C5_TrackerOneSession ==
    \A m \in marked : m.id \in tracker => m.sess = session

(* C6: no node of the graph was answered or created by the response to a request
   dispatched for a node of another session (origin 0: no response involved) *)
C6_StaleResponseDiscarded ==
    \A i \in 1..Len(nodes) : nodes[i].origin \in {0, nodes[i].sess}

(* C7: the source and the target of every edge are ids of nodes of the node list *)
C7_NoDanglingEdge ==
    \A i \in 1..Len(edges) :
        edges[i].source \in NodeIds(nodes) /\ edges[i].target \in NodeIds(nodes)

(* C8: when no update is queued and no delayed edge step is outstanding, every
   node other than a Response node is the target of an edge *)
C8_NoOrphanNode ==
    (pending = <<>> /\ ~\E t \in timers : t.kind \in {"childEdges", "customEdge"})
    => \A i \in 1..Len(nodes) :
          nodes[i].type # "response" => \E j \in 1..Len(edges) : edges[j].target = nodes[i].id

(* C9: a call of handleGenerateChildNodes with an empty follow-up list, and every
   call for a node the tracker holds, leaves the node in the tracker, dispatches no
   update and changes neither the node list nor the edge list *)
C9_EmptyListMarksOnly ==
    [][\A t \in timers :
          (Called(t) /\ (Len(t.followUps) = 0 \/ t.id \in tracker))
          => (t.id \in tracker' /\ pending' = pending /\ nodes' = nodes /\ edges' = edges)]_vars

(* a node was marked by a call with an empty list (it is tracked and no call for
   it passed the tracker check with questions), a later answer gave it questions,
   and every call for it has been made: it has no child *)
C9_Witness ==
    \E i \in 1..Len(nodes) :
        /\ nodes[i].id \in tracker /\ nodes[i].id \notin DOMAIN batches
        /\ nodes[i].hasBeenAnswered /\ Len(nodes[i].childQuestions) > 0
        /\ ~\E t \in timers : t.kind = "generate" /\ t.id = nodes[i].id
        /\ ~\E r \in inflight : r.kind = "followUp" /\ r.id = nodes[i].id
        /\ pending = <<>>
        /\ childId(nodes[i].id, 0) \notin NodeIds(nodes)

(* C10: an id leaves the tracker in no step other than resetCanvas *)
C10_TrackerKeepsIds ==
    [][tracker \subseteq tracker' \/ ResetCanvas]_vars

(* an expansion passed the tracker check, its updater found no parent node, and
   the id is still in the tracker *)
C10_Witness ==
    \E id \in tracker :
        /\ id \in DOMAIN batches
        /\ id \notin NodeIds(nodes)
        /\ Len(nodes) > 0
        /\ pending = <<>>

-----------------------------------------------------------------------------
(* no queued update and no delayed edge step outstanding *)
Settled == pending = <<>> /\ ~\E t \in timers : t.kind \in {"childEdges", "customEdge"}

(* C11: on a canvas initialized once and never reset, when the updates of an
   expansion have settled, each of the k children followup-<parent>-0 ..
   followup-<parent>-(k-1) of a parent of the graph is in the node list exactly
   once, and the edge list holds exactly one edge parent->child for each *)
C11_ExactlyKChildren ==
    (issued = 1 /\ Settled)
    => \A p \in DOMAIN generated :
          p \in NodeIds(nodes)
          => \A k \in 0..(generated[p] - 1) :
                /\ Cardinality({j \in 1..Len(nodes) : nodes[j].id = childId(p, k)}) = 1
                /\ Cardinality({j \in 1..Len(edges) :
                        edges[j].source = p /\ edges[j].target = childId(p, k)}) = 1

(* the node p is Answered and its data holds k >= 1 follow-up questions *)
AnsweredWithFollowUps(p) ==
    \E i \in 1..Len(nodes) :
        nodes[i].id = p /\ nodes[i].hasBeenAnswered /\ Len(nodes[i].childQuestions) >= 1

(* the node p is Expanded: a child node exists for each of its follow-up questions *)
Expanded(p) ==
    \E i \in 1..Len(nodes) :
        /\ nodes[i].id = p
        /\ \A k \in 0..(Len(nodes[i].childQuestions) - 1) : HasNode(nodes, childId(p, k))

(* nothing is scheduled: no queued update, no timer, no request awaiting its response *)
Quiescent == pending = <<>> /\ timers = {} /\ inflight = {}

(* C12: a node that is Answered with k >= 1 follow-up questions is eventually
   Expanded.  Once nothing is scheduled any more (no update queued, no timer
   set, no request outstanding) the k children of every such node are in the
   node list: a state where they are not stays as it is for ever *)
C12_AnsweredEventuallyExpanded ==
    Quiescent
    => \A i \in 1..Len(nodes) :
          AnsweredWithFollowUps(nodes[i].id) => Expanded(nodes[i].id)

(* C13: whenever the edge list holds two edges of one (source, target) pair, a
   later state holds none (the reconciliation pass has run); a state without
   queued update never holds such a pair; and from some point on no update is
   queued any more: the effects on [edges], the duplicate-edge cleanup and the
   edge highlight, stop dispatching *)
C13_ReconciliationFixedPoint ==
    /\ hasDuplicates(edges) ~> ~hasDuplicates(edges)
    /\ [](pending = <<>> => ~hasDuplicates(edges))
    /\ <>[](pending = <<>>)

(* nothing is scheduled, a cleanup has removed an edge, an edge is highlighted,
   and no pair occurs twice *)
C13_Witness ==
    /\ Quiescent /\ cleaned
    /\ \E i \in 1..Len(edges) : edges[i].className = "highlighted-path"
    /\ ~hasDuplicates(edges)

(* the render about to run applies a duplicate-edge cleanup *)
CleanupQueued == \E k \in 1..Len(Flatten(pending)) : Flatten(pending)[k].op = "cleanup"

(* C14: in a step that stays in the canvas session (no initialization and no
   reset takes effect) every node keeps its place in the node list, so the list
   only grows; every (source, target) pair of the edge list stays in it; and
   unless the step renders a duplicate-edge cleanup, every edge keeps its place *)
C14_GrowsBetweenResets ==
    [][session' = session
       => /\ Len(nodes') >= Len(nodes)
          /\ \A i \in 1..Len(nodes) : nodes'[i].id = nodes[i].id
          /\ \A i \in 1..Len(edges) : SamePair(edges', edges[i]) # {}
          /\ ~CleanupQueued
                => /\ Len(edges') >= Len(edges)
                   /\ \A i \in 1..Len(edges) : /\ edges'[i].id = edges[i].id
                                                /\ edges'[i].source = edges[i].source
                                                /\ edges'[i].target = edges[i].target]_vars

(* in the first session a node was answered, children were added, and the cleanup
   took an edge out *)
C14_Witness ==
    /\ session = 1 /\ issued = 1 /\ cleaned
    /\ \E i \in 1..Len(nodes) : nodes[i].hasBeenAnswered
    /\ Len(nodes) > Len(initialNodes(mockFollowUps, "", 1))

(* the edges that point at the node id *)
incomingEdges(id) == {j \in 1..Len(edges) : edges[j].target = id}

(* following the incoming edges upward from id reaches, on every way and within
   fuel steps, a node without incoming edge *)
RECURSIVE ReachesRoot(_, _)
ReachesRoot(id, fuel) ==
    \/ incomingEdges(id) = {}
    \/ /\ fuel > 0
       /\ \A j \in incomingEdges(id) : ReachesRoot(edges[j].source, fuel - 1)

(* the ids of the node list and the ends of the edges *)
GraphIds == NodeIds(nodes) \cup {edges[j].source : j \in 1..Len(edges)}
                          \cup {edges[j].target : j \in 1..Len(edges)}

(* C15: once the edge list holds no (source, target) pair twice, the edges form a
   forest: every node has at most one incoming edge, and following the incoming
   edges upward from any node ends at a node without incoming edge *)
C15_EdgesFormForest ==
    ~hasDuplicates(edges)
    => \A id \in GraphIds :
          /\ Cardinality(incomingEdges(id)) <= 1
          /\ ReachesRoot(id, Len(edges))

(* a cleanup has run, no pair occurs twice, and some node has a grandparent *)
C15_Witness ==
    /\ cleaned /\ ~hasDuplicates(edges)
    /\ \E i, j \in 1..Len(edges) : edges[i].target = edges[j].source

(* the first half of C16: in a step that stays in the canvas session no node goes
   back from Answered to Unanswered *)
AnsweredStaysAnswered ==
    [][session' = session
       => \A i \in 1..Len(nodes) :
             nodes[i].hasBeenAnswered
             => Len(nodes') >= i /\ nodes'[i].id = nodes[i].id /\ nodes'[i].hasBeenAnswered]_vars

(* C16: the state of a node only moves forward, Unanswered -> Answered ->
   Expanded; in particular, once every queued update is rendered, a node of the
   node list whose id is in the tracker has hasBeenAnswered = TRUE *)
C16_TrackedOnlyIfAnswered ==
    pending = <<>>
    => \A i \in 1..Len(nodes) : nodes[i].id \in tracker => nodes[i].hasBeenAnswered

(* the updates the next render applies, in order *)
Queue == Flatten(pending)

(* the answer update at place k is the last one for its node *)
LastAnswer(k) ==
    ~\E m \in (k + 1)..Len(Queue) : Queue[m].op = "answer" /\ Queue[m].id = Queue[k].id

(* C17: handleFollowUpQuestion for a node of the graph ends, whether the request
   succeeded or failed, with the node Answered and its expansion scheduled.  When
   the response arrives an answer update for the node is queued, and on success
   the 500 ms timer is set; the render that applies the update to a node of the
   list (no list replacement in the same render) leaves the node with
   hasBeenAnswered = TRUE and a non-empty answer and a timer for its expansion
   set; after a failure the node holds the placeholder answer and the three
   placeholder questions and the timer carries those three questions *)
C17_AlwaysAnsweredAndScheduled ==
    [][/\ \A r \in inflight \ inflight' :
             r.kind = "followUp"
             => \E u \in Range(pending'[Len(pending')]) :
                   /\ u.op = "answer" /\ u.id = r.id
                   /\ u.mock => (u.answer = "mock answer" /\ u.followUps = mockFollowUps)
                   /\ ~u.mock => generateTimer("explicit", r.id, u.followUps, r.origin) \in timers'
       /\ Render
             => \A k \in 1..Len(Queue) :
                   (/\ Queue[k].op = "answer"
                    /\ HasNode(nodes, Queue[k].id)
                    /\ ~\E m \in 1..Len(Queue) : Queue[m].op = "setNodes")
                   => /\ \A i \in 1..Len(nodes') :
                            nodes'[i].id = Queue[k].id
                            => /\ nodes'[i].hasBeenAnswered /\ nodes'[i].answer # ""
                               /\ (Queue[k].mock /\ LastAnswer(k))
                                     => /\ nodes'[i].answer = "mock answer"
                                        /\ nodes'[i].childQuestions = mockFollowUps
                                        /\ Len(nodes'[i].childQuestions) = 3
                      /\ \E t \in timers' : t.kind = "generate" /\ t.id = Queue[k].id
                      /\ Queue[k].mock
                            => generateTimer("explicit", Queue[k].id, mockFollowUps,
                                             Queue[k].origin) \in timers']_vars

(* a request failed: the node holds the placeholder answer and the three
   placeholder questions, and the timer for its expansion is set *)
C17_Witness ==
    \E i \in 1..Len(nodes) :
        /\ nodes[i].hasBeenAnswered /\ nodes[i].answer = "mock answer"
        /\ nodes[i].childQuestions = mockFollowUps
        /\ generateTimer("explicit", nodes[i].id, mockFollowUps, nodes[i].origin) \in timers

-----------------------------------------------------------------------------
(* buildAncestorContext has returned *)
CtxDone == ctxCalls = <<>> /\ visitedNodes # <<>>

(* the node id buildAncestorContext was called with *)
CtxStart == Head(visitedNodes)

CtxEdgePairs == {<<ctxEdges[k].source, ctxEdges[k].target>> : k \in 1..Len(ctxEdges)}

(* the graph is the chain root -> A -> B -> C, each edge once or more often *)
IsChain ==
    /\ Len(ctxNodes) = 4
    /\ CtxEdgePairs = {<<ctxRoot, ctxA>>, <<ctxA, ctxB>>, <<ctxB, ctxC>>}

(* the texts of each node of the chain, and its distance from the root *)
ChainTexts(id) ==
    CASE id = ctxRoot -> {"R"}
      [] id = ctxA -> {"qA", "aA"}
      [] id = ctxB -> {"qB", "aB"}
      [] id = ctxC -> {"qC", "aC"}

ChainDepth(text) ==
    CASE text \in ChainTexts(ctxRoot) -> 0
      [] text \in ChainTexts(ctxA) -> 1
      [] text \in ChainTexts(ctxB) -> 2
      [] text \in ChainTexts(ctxC) -> 3

(* C18: for the chain root -> A -> B -> C, whatever the order of the edge list and
   however often an edge is repeated in it, buildAncestorContext(C) is one and
   the same list, and the question and the answer (or content) of each of C, B,
   A and the root are in it exactly once *)
C18_ChainContextExactlyOnce ==
    (CtxDone /\ IsChain /\ CtxStart = ctxC)
    => /\ context = <<[label |-> "Question", text |-> "qC"]>>
                    \o (IF ctxNodes[4].answer # ""
                        THEN <<[label |-> "Answer", text |-> "aC"]>> ELSE <<>>)
                    \o <<[label |-> "Question", text |-> "qB"], [label |-> "Answer", text |-> "aB"],
                         [label |-> "Question", text |-> "qA"], [label |-> "Answer", text |-> "aA"],
                         [label |-> "Answer", text |-> "R"]>>
       /\ \A t \in {"qC", "qB", "aB", "qA", "aA", "R"} :
             Cardinality({k \in 1..Len(context) : context[k].text = t}) = 1

(* the call for C on the chain has returned, and the edge list repeats an edge *)
C18_Witness ==
    CtxDone /\ IsChain /\ CtxStart = ctxC /\ Len(ctxEdges) = 4

(* C19 as stated: on the chain the content of the root comes first and the content
   of the node the walk started from comes last *)
C19_RootToNodeOrder ==
    (CtxDone /\ IsChain)
    => /\ context[1].text \in ChainTexts(ctxRoot)
       /\ context[Len(context)].text \in ChainTexts(CtxStart)

(* C19 as the code has it: the context is in node-to-root order.  On the chain
   the content of the node the walk started from comes first, the content of the
   root comes last, and no node's content comes before that of a node further
   from the root *)
C19_NodeToRootOrder ==
    (CtxDone /\ IsChain)
    => /\ context[1].text \in ChainTexts(CtxStart)
       /\ context[Len(context)].text \in ChainTexts(ctxRoot)
       /\ \A i, j \in 1..Len(context) :
             i < j => ChainDepth(context[i].text) >= ChainDepth(context[j].text)

(* the call for B on the chain has returned *)
C19_Witness ==
    CtxDone /\ IsChain /\ CtxStart = ctxB /\ Len(context) = 5

(* C20: buildAncestorContext returns (no call of getParentContext remains), on
   every node and edge list, and no node id is visited twice *)
C20_TerminatesVisitsOnce ==
    /\ <>(ctxCalls = <<>>)
    /\ [](\A i, j \in 1..Len(visitedNodes) : i < j => visitedNodes[i] # visitedNodes[j])

(* the call has returned on an edge list with the cycle A -> B -> C -> A and an
   edge whose source is not in the node list, having gone round the cycle *)
C20_Witness ==
    /\ CtxDone /\ CtxStart = ctxC
    /\ {<<ctxA, ctxB>>, <<ctxB, ctxC>>, <<ctxC, ctxA>>, <<ctxGone, ctxB>>} \subseteq CtxEdgePairs
    /\ {ctxA, ctxB, ctxC, ctxGone} \subseteq Range(visitedNodes)

-----------------------------------------------------------------------------
(* C21: calculateNodePositions completes in a number of steps bounded by its
   input: the recursion of calculateNodeDepth makes at most one call per edge of
   the edge list and one for the parent, also on an edge list with a cycle through
   the parent *)
C21_DepthBoundedByEdgeList ==
    depthCalls <= Len(argEdges) + 1

(* the call returns once the engine has ended the recursion *)
PlaceReturns == <>(pc = "returned")

(* the probe loop makes at most maxAttempts probes *)
ProbesBounded == retAttempts <= maxAttempts

(* max(childrenCount, 1): the children asked for *)
Requested == IF argCount > 1 THEN argCount ELSE 1

(* C22: when parentNodeId is not null and does not resolve to a node with a
   numeric position, calculateNodePositions returns max(childrenCount, 1)
   positions, every one of them (650, 400) *)
C22_CenterForAllChildren ==
    (pc = "returned" /\ argParent # <<>> /\ resolveParent(argParent, argNodes) = 0)
    => /\ Len(retPositions) = Requested
       /\ \A i \in 1..Len(retPositions) : retPositions[i] = Pos(650, 400)

(* what the code does for an unresolved parent: one position, the center *)
UnresolvedReturnsOneCenter ==
    (pc = "returned" /\ argParent # <<>> /\ resolveParent(argParent, argNodes) = 0)
    => retPositions = <<Pos(650, 400)>>

(* the parent of the call: the first node of existingNodes with the id *)
ParentPos == argNodes[resolveParent(argParent, argNodes)].position

(* the grid position of child i (from 0) of n children, as the layout rule gives it *)
GridPosition(P, n, i) ==
    Pos(P.x + 250 + (i \div 3) * 350,
        (IF n = 1 THEN P.y ELSE P.y - ((IF n < 3 THEN n ELSE 3) * 200) \div 2 + 100)
           + (i % 3) * 200)

(* the position is closer than 175 in x and closer than 100 in y to an existing
   node with a numeric position *)
OverlapsExisting(p) ==
    \E k \in 1..Len(argNodes) :
        /\ hasNumericPosition(argNodes[k])
        /\ Abs(argNodes[k].position.x - p.x) < 175
        /\ Abs(argNodes[k].position.y - p.y) < 100

(* C23: for a resolved parent P and n = max(childrenCount, 1) children of which no
   grid position overlaps an existing node, calculateNodePositions returns exactly
   n positions, child i at x = P.x + 250 + floor(i/3)*350 and
   y = startY + (i mod 3)*200, startY = P.y for n = 1 and P.y - min(n,3)*200/2 + 100
   otherwise *)
C23_GridPositions ==
    (/\ pc = "returned" /\ argParent # <<>> /\ resolveParent(argParent, argNodes) # 0
     /\ \A i \in 0..(Requested - 1) : ~OverlapsExisting(GridPosition(ParentPos, Requested, i)))
    => /\ Len(retPositions) = Requested
       /\ \A i \in 0..(Requested - 1) : retPositions[i + 1] = GridPosition(ParentPos, Requested, i)

(* 4 children of a parent at (650, 400) have been placed in two columns, the
   second 350 to the right of the first *)
C23_Witness ==
    /\ pc = "returned" /\ argCount = 4 /\ resolveParent(argParent, argNodes) # 0
    /\ ParentPos = Pos(650, 400)
    /\ retPositions = <<Pos(900, 200), Pos(900, 400), Pos(900, 600), Pos(1250, 200)>>

(* C27: when parentNodeId is null, calculateNodePositions returns the one position
   (650, 400), whatever childrenCount and existingNodes are, also when an existing
   node lies on (650, 400) *)
C27_NullParentOneCenter ==
    (pc = "returned" /\ argParent = <<>>) => retPositions = <<Pos(650, 400)>>

(* a call with null parent and 4 children has returned, an existing node lying on
   (650, 400) *)
C27_Witness ==
    /\ pc = "returned" /\ argParent = <<>> /\ argCount = 4
    /\ OverlapsExisting(Pos(650, 400))
    /\ Len(retPositions) = 1

(* probe k of the probe order (x+250, y), (x, y+200), (x+250, y+200), (x, y+400), ... *)
Probe(k) ==
    IF k % 2 = 1 THEN Pos(argPosition.x + 250, argPosition.y + ((k - 1) \div 2) * 200)
    ELSE Pos(argPosition.x, argPosition.y + (k \div 2) * 200)

(* the probes among the first n that overlap no existing node *)
FreeProbes(n) == {k \in 1..n : ~OverlapsExisting(Probe(k))}

FirstFree(n) == CHOOSE k \in FreeProbes(n) : \A j \in FreeProbes(n) : k <= j

(* the returned position is at least one grid step away from the position given *)
MovedByGridStep ==
    \/ Abs(retPosition.x - argPosition.x) >= 250
    \/ Abs(retPosition.y - argPosition.y) >= 200

(* C24: when the position overlaps an existing node and one of the 20 probes is
   free, avoidOverlap returns the first free probe, also when that is the 20th;
   and the position returned is at least one full grid step away *)
C24_FirstFreeProbeWins ==
    (pc = "resolved" /\ OverlapsExisting(argPosition))
    => /\ FreeProbes(20) # {} => retPosition = Probe(FirstFree(20))
       /\ MovedByGridStep

(* what holds of the code: the first free probe among the first 19 is returned, and
   the position returned is a grid step away *)
FirstFreeOfNineteenWins ==
    (pc = "resolved" /\ OverlapsExisting(argPosition))
    => /\ FreeProbes(19) # {} => retPosition = Probe(FirstFree(19))
       /\ MovedByGridStep

(* C25: the position avoidOverlap returns overlaps no existing node with a numeric
   position, also when it is the fallback below the lowest node *)
C25_ResolvedOverlapsNone ==
    pc = "resolved" => ~OverlapsExisting(retPosition)

(* the probes were exhausted and the fallback, 200 below the lowest node, was
   returned *)
C25_Witness ==
    /\ pc = "resolved" /\ retAttempts = 20
    /\ retPosition.x = argPosition.x
    /\ \E k \in 1..Len(argNodes) :
          /\ hasNumericPosition(argNodes[k])
          /\ retPosition.y = argNodes[k].position.y + 200
          /\ \A j \in 1..Len(argNodes) :
                hasNumericPosition(argNodes[j]) => argNodes[j].position.y <= argNodes[k].position.y

(* C26: avoidOverlap returns the position unchanged exactly when it overlaps no
   existing node with a numeric position; with no such node in the list it
   returns it unchanged without a probe *)
C26_UnchangedIffNoOverlap ==
    pc = "resolved"
    => /\ (retPosition = argPosition) <=> ~OverlapsExisting(argPosition)
       /\ (\A k \in 1..Len(argNodes) : ~hasNumericPosition(argNodes[k]))
             => (retPosition = argPosition /\ retAttempts = 0)
       /\ ~OverlapsExisting(argPosition) => retAttempts = 0

(* the call has returned the position unchanged on a list whose only node has no
   numeric position *)
C26_Witness ==
    /\ pc = "resolved" /\ Len(argNodes) = 1 /\ ~hasNumericPosition(argNodes[1])
    /\ retPosition = argPosition

(* the edges of the list that are the first with their source and target *)
FirstOfPair(es) ==
    {i \in 1..Len(es) :
        \A j \in 1..(i - 1) : ~(es[j].source = es[i].source /\ es[j].target = es[i].target)}

(* the k-th of them, in the order of the list *)
KthFirst(es, k) ==
    CHOOSE i \in FirstOfPair(es) : Cardinality({j \in FirstOfPair(es) : j <= i}) = k

(* C28: the cleanup returns, in the order of the input, the edges that are the
   first of the input with their (source, target) pair, each as it was; applied to
   what it returned it returns the same list *)
C28_KeepsFirstInOrder ==
    /\ [](pc \in {"cleaned", "cleaned twice"}
            => /\ Len(retEdges) = Cardinality(FirstOfPair(argEdges))
               /\ \A k \in 1..Len(retEdges) : retEdges[k] = argEdges[KthFirst(argEdges, k)])
    /\ [][pc = "cleaned" => retEdges' = retEdges]_vars

(* both passes have run on a list of four edges over two pairs, the third edge
   having the pair and not the id of the first *)
C28_Witness ==
    /\ pc = "cleaned twice" /\ Len(argEdges) = 4 /\ Len(retEdges) = 2
    /\ argEdges[3].source = argEdges[1].source /\ argEdges[3].target = argEdges[1].target
    /\ argEdges[3].id # argEdges[1].id
    /\ retEdges[1] = argEdges[1]

(* in the canvas two edges with the same key `${source}-${target}` have the same
   source and the same target *)
ComboIsPair ==
    \A i, j \in 1..Len(edges) :
        combo(edges[i]) = combo(edges[j])
        => (edges[i].source = edges[j].source /\ edges[i].target = edges[j].target)

-----------------------------------------------------------------------------
(* the click on a term of node i has dispatched one setNodes that appends one
   topic node, at the parent's position plus the offset, and one setEdges that
   appends one edge from the node's id to it; tracker and node list are as before *)
TopicDispatched(i, off) ==
    /\ Len(pending') = Len(pending) + 1
    /\ LET task == pending'[Len(pending')]
       IN /\ Len(task) = 2
          /\ task[1].op = "appendNodes" /\ Len(task[1].val) = 1
          /\ task[1].val[1].type = "topic"
          /\ task[1].val[1].position
                = Pos(nodes[i].position.x + off[1], nodes[i].position.y + off[2])
          /\ task[2].op = "appendEdges" /\ Len(task[2].val) = 1
          /\ task[2].val[1].source = nodes[i].id
          /\ task[2].val[1].target = task[1].val[1].id
    /\ tracker' = tracker
    /\ nodes' = nodes

(* C29: a click on a highlighted term of any node, the Response node as well as an
   answered FollowUp node, adds one Topic node and one edge from the clicked node
   to it, at the position the random offset gives, and changes neither the tracker
   nor the existing nodes *)
C29_TopicClickAddsNodeAndEdge ==
    [][\A i \in 1..Len(nodes), off \in TopicOffsets :
          ClickTopic(i, off) => TopicDispatched(i, off)]_vars

(* what holds of the code: the same for the clicks on an answered FollowUp node *)
FollowUpTopicClickAdds ==
    [][\A i \in 1..Len(nodes), off \in TopicOffsets :
          (ClickTopic(i, off) /\ nodes[i].type = "followUp") => TopicDispatched(i, off)]_vars

(* a click on a term of the Response node dispatches nothing *)
ResponseTopicClickIgnored ==
    [][\A i \in 1..Len(nodes), off \in TopicOffsets :
          (ClickTopic(i, off) /\ nodes[i].type = "response") => pending' = pending]_vars

(* a topic node hangs on an answered FollowUp node *)
FollowUpTopicReached ==
    \E k \in 1..Len(edges), i \in 1..Len(nodes) :
        /\ nodes[i].type = "followUp" /\ edges[k].source = nodes[i].id
        /\ \E j \in 1..Len(nodes) : nodes[j].type = "topic" /\ nodes[j].id = edges[k].target

-----------------------------------------------------------------------------
(* the nodes handleCreateCustomFollowUp made: `follow-up-input-${parentId}-...` *)
IsInputNode(n) == Len(n.id) > 3 /\ SubSeq(n.id, 1, 3) = <<"follow", "up", "input">>

(* C30: the submission of a text in a custom follow-up input node dispatches one
   generation call, and once its answer is written the node has the text as its
   question and is no longer an input node *)
C30_SubmittedBecomesFollowUp ==
    /\ [](\A i \in 1..Len(nodes) :
            (IsInputNode(nodes[i]) /\ nodes[i].hasBeenAnswered)
            => (nodes[i].question = "typed" /\ ~nodes[i].isInput))
    /\ [][\A i \in 1..Len(nodes) :
            SubmitCustom(i) => Cardinality(inflight') = Cardinality(inflight) + 1]_vars

(* what holds of the code: one generation call per submission *)
SubmitDispatchesOneCall ==
    [][\A i \in 1..Len(nodes) :
          SubmitCustom(i) => Cardinality(inflight') = Cardinality(inflight) + 1]_vars

(* what the code does to a submitted input node: it is answered, keeps its empty
   question and stays an input node *)
SubmittedStaysInput ==
    \A i \in 1..Len(nodes) :
        (IsInputNode(nodes[i]) /\ nodes[i].hasBeenAnswered)
        => (nodes[i].question = "" /\ nodes[i].isInput)

(* a submitted input node is answered and has its child nodes *)
SubmittedExpanded ==
    \E i \in 1..Len(nodes) :
        /\ IsInputNode(nodes[i]) /\ nodes[i].hasBeenAnswered
        /\ \E j \in 1..Len(nodes) : nodes[j].id = childId(nodes[i].id, 0)

-----------------------------------------------------------------------------
(* C31: a second call of calculateNodePositions with the same parent, child count,
   node list and edge list returns the list of positions the first call returned *)
C31_SameInputSamePositions ==
    [][pc = "returned" => (retPositions' = retPositions /\ pc' = "returned twice")]_vars

(* both calls have returned, for three children of which overlap resolution moved
   one *)
C31_Witness ==
    /\ pc = "returned twice" /\ argCount = 3 /\ resolveParent(argParent, argNodes) # 0
    /\ \E i \in 0..2 : retPositions[i + 1] # GridPosition(ParentPos, 3, i)

(* the two positions are closer than 175 in x and closer than 100 in y *)
TooClose(p, q) == Abs(p.x - q.x) < 175 /\ Abs(p.y - q.y) < 100

(* C34: the positions one call of calculateNodePositions returns are pairwise
   non-overlapping by the test of avoidOverlap, whatever the existing nodes are *)
C34_OneCallPairwiseApart ==
    [][\A i, j \in (Len(geoReturned) + 1)..Len(geoReturned') :
          i < j => ~TooClose(geoReturned'[i], geoReturned'[j])]_vars

(* the same for the call of the placement scenario *)
PlacedPairwiseApart ==
    \A i, j \in 1..Len(retPositions) : i < j => ~TooClose(retPositions[i], retPositions[j])


(* the queue holds the delayed edge-creation step of handleGenerateChildNodes and
   nothing else, so the next render applies it to the current edge list *)
DelayedStepQueued ==
    /\ Len(pending) = 1 /\ Len(pending[1]) = 1
    /\ pending[1][1].op = "childEdges"

(* C32: the delayed edge-creation step adds no edge for a (parent, child) pair
   for which the edge list it is applied to already holds an edge *)
C32_DelayedStepAddsNoSecondEdge ==
    [][DelayedStepQueued =>
         \A k \in (Len(edges) + 1)..Len(edges') : SamePair(edges, edges'[k]) = {}]_vars


(* the queue holds the setNodes and setEdges of initializeCanvas (lines 558-559)
   and nothing else; the ones of resetCanvas (lines 1381-1383) carry empty lists *)
InitializeQueued ==
    /\ Len(pending) = 1 /\ Len(pending[1]) = 2
    /\ pending[1][1].op = "setNodes" /\ pending[1][2].op = "setEdges"
    /\ pending[1][1].val # <<>>

(* the questions of the follow-up nodes of a list that are not the custom one *)
QuestionsOf(ns) ==
    LET asked == SelectSeq(ns, LAMBDA n : n.type = "followUp" /\ ~n.isCustom)
    IN [i \in 1..Len(asked) |-> asked[i].question]

(* the graph initializeCanvas builds: the root Response node, a FollowUp node for
   each question, the custom follow-up node, one edge from the root to each of
   them and no other edge, no two nodes overlapping by the test of lines 178-186 *)
IsInitialGraph(ns, es) ==
    /\ Len(ns) >= 2
    /\ ns[1].id = responseId /\ ns[1].type = "response"
    /\ \A i \in 2..Len(ns) : ns[i].type = "followUp"
    /\ ns[Len(ns)].id = customFollowUpId /\ ns[Len(ns)].isCustom
    /\ \A i \in 2..(Len(ns) - 1) : ns[i].id = <<"followup", Tok(i - 1)>> /\ ~ns[i].isCustom
    /\ IF ns[1].content = "mock answer"
       THEN QuestionsOf(ns) = initMockFollowUps
       ELSE QuestionsOf(ns) \in ApiFollowUps
    /\ Len(es) = Len(ns) - 1
    /\ \A i \in 2..Len(ns) :
          Cardinality({j \in 1..Len(es) : es[j].source = responseId /\ es[j].target = ns[i].id}) = 1
    /\ \A i, j \in 1..Len(ns) : i < j => ~TooClose(ns[i].position, ns[j].position)

(* C33: the render that applies what initializeCanvas dispatched, after a
   successful and after a failed initial call, leaves the root Response node, one
   FollowUp node per follow-up question and one custom follow-up node, exactly
   one edge from the root to each of them, and no two of these nodes overlapping *)
C33_InitialGraph ==
    [][(InitializeQueued /\ session' # session) => IsInitialGraph(nodes', edges')]_vars

(* the graph after a failed initial call has been rendered: three placeholder
   questions and the custom node, the fourth in a second column *)
C33_Witness ==
    /\ pending = <<>> /\ session = 1 /\ budget = 0 /\ timers = {}
    /\ Len(nodes) = 5 /\ nodes[1].content = "mock answer"
    /\ IsInitialGraph(nodes, edges)
    /\ nodes[5].position.x > nodes[2].position.x

(* the graph after a successful initial call with one follow-up question *)
InitialGraphAfterSuccess ==
    /\ pending = <<>> /\ session = 1 /\ budget = 0
    /\ Len(nodes) = 3 /\ nodes[1].content = "answer"
    /\ IsInitialGraph(nodes, edges)


(* C35: every id in the tracker is the id of a node of the current node list *)
C35_TrackedIdsHaveNodes ==
    \A id \in tracker : HasNode(nodes, id)

(* a call of handleGenerateChildNodes adds to the tracker only the id of a node
   of the node list at the time of the call *)
MarksOnlyExistingNode ==
    [][\A t \in timers : (Called(t) /\ tracker' # tracker) => HasNode(nodes, t.id)]_vars


(* the edges of a list that are the first with their source and target, in the
   order of the list *)
FirstOfPairs(es) ==
    [k \in 1..Cardinality(FirstOfPair(es)) |-> es[KthFirst(es, k)]]

(* C36: the reconciliation removes an edge only if an earlier edge of the list
   has the same source and the same target: applied to the edge list of the
   canvas, whose ids contain '-', it keeps every edge that is the first with its
   (source, target) pair, and the render that runs it alone leaves exactly those *)
C36_RemovesOnlyRepeatedPairs ==
    /\ [](cleanupEdges(edges) = FirstOfPairs(edges))
    /\ [][(pending = << <<[op |-> "cleanup"]>> >> /\ edges' # edges)
            => edges' = FirstOfPairs(edges)]_vars

(* the reconciliation is queued for a list that holds the pair (followup-1,
   followup-followup-1-0) twice and the pair (response-1, followup-1), whose key
   is the beginning of the key of the former *)
C36_Witness ==
    /\ pending = << <<[op |-> "cleanup"]>> >>
    /\ \E i, j \in 1..Len(edges) :
          /\ i < j
          /\ edges[i].source = <<"followup", "1">>
          /\ edges[i].target = <<"followup", "followup", "1", "0">>
          /\ edges[j].source = edges[i].source /\ edges[j].target = edges[i].target
    /\ \E i \in 1..Len(edges) :
          edges[i].source = responseId /\ edges[i].target = <<"followup", "1">>


-----------------------------------------------------------------------------
(***************************************************************************)
(* The server's Claude service (src/server/services/claudeService.js):     *)
(* makeClaudeAPICall with its retries and the token window of              *)
(* checkRateLimit.  Invocations interleave at their awaits: the request    *)
(* and the back-off delay.                                                 *)
(***************************************************************************)
MAX_RETRIES == 3
RETRY_DELAY == 2000
RETRY_STATUS_CODES == {429, 500, 502, 503, 504, 529}
RATE_LIMIT == 4000
RATE_LIMIT_WINDOW == 60000
(* the default of checkRateLimit's parameter requestTokens *)
requestTokens == 1000

(* String.prototype.includes on a text kept as its words *)
includes(message, word) == \E i \in 1..Len(message) : message[i] = word

(* the decimal digits of a number *)
RECURSIVE Digits(_)
Digits(n) == IF n < 10 THEN <<Tok(n)>> ELSE Append(Digits(n \div 10), Tok(n % 10))

(* the Error checkRateLimit throws (lines 52-53): a message only *)
rateLimitError(waitTime) ==
    [NoError EXCEPT !.message = <<"Rate", "limit", "exceeded.", "Please", "wait">>
                                \o Digits((waitTime + 999) \div 1000) \o <<"seconds.">>]

(* a check that compares after it has counted the request *)
checkRateLimitCountsFirst(tokens) ==
    LET expired == now - lastResetTime >= RATE_LIMIT_WINDOW
        usage == IF expired THEN 0 ELSE tokenUsage
        last == IF expired THEN now ELSE lastResetTime
    IN [tokenUsage |-> IF usage > RATE_LIMIT THEN usage ELSE usage + tokens,
        lastResetTime |-> last,
        rejected |-> usage > RATE_LIMIT,
        waitTime |-> RATE_LIMIT_WINDOW - (now - last)]

(* checkRateLimit (lines 43-57): the values of tokenUsage and lastResetTime it
   leaves, and whether it threw *)
checkRateLimit(tokens) ==
    LET expired == now - lastResetTime >= RATE_LIMIT_WINDOW
        usage == IF expired THEN 0 ELSE tokenUsage
        last == IF expired THEN now ELSE lastResetTime
        rejected == usage + tokens > RATE_LIMIT
    IN [tokenUsage |-> IF rejected THEN usage ELSE usage + tokens,
        lastResetTime |-> last,
        rejected |-> rejected,
        waitTime |-> RATE_LIMIT_WINDOW - (now - last)]

(* a retry decision that looks at the retry count only *)
shouldRetryAnyError(error, retryCount) == retryCount < MAX_RETRIES

(* shouldRetry (lines 102-113) *)
shouldRetry(error, retryCount) ==
    /\ retryCount < MAX_RETRIES
    /\ \/ error.status = 529
       \/ error.type = "overloaded_error"
       \/ error.xShouldRetry = "true"
       \/ error.status \in RETRY_STATUS_CODES
       \/ error.code = "ECONNRESET"
       \/ error.code = "ETIMEDOUT"
       \/ includes(error.message, "timeout")

(* backoffDelay (line 116) *)
backoffDelay(retryCount) == RETRY_DELAY * 2 ^ retryCount

(* the catch block (lines 92-124): the call waits for its retry or throws *)
caught(call, error) ==
    IF shouldRetry(error, call.retryCount)
    THEN [call EXCEPT !.phase = "delaying", !.until = now + backoffDelay(call.retryCount),
                      !.error = error]
    ELSE [call EXCEPT !.phase = "thrown", !.error = error]

(* the body of makeClaudeAPICall up to its first await (lines 61-90): the rate
   check, then the request is sent; an exception of the check is caught at line 91 *)
attempt(c, call) ==
    \E r \in {checkRateLimit(requestTokens)} :
        /\ tokenUsage' = r.tokenUsage
        /\ lastResetTime' = r.lastResetTime
        /\ apiCalls' = [apiCalls EXCEPT ![c] =
              IF r.rejected
              THEN caught([call EXCEPT !.checks = @ + 1], rateLimitError(r.waitTime))
              ELSE [call EXCEPT !.phase = "posting", !.checks = @ + 1, !.requests = @ + 1]]

(* the failures axios.post may reject with: a response with a status, an error
   type and headers, or an error code and a message without a response *)
statusError(status) ==
    [NoError EXCEPT !.status = status,
                    !.message = <<"Request", "failed", "with", "status", "code">> \o Digits(status)]

Failures ==
    {statusError(status) : status \in RETRY_STATUS_CODES \cup {400}}
    \cup {[statusError(400) EXCEPT !.type = "overloaded_error"],
          [statusError(401) EXCEPT !.xShouldRetry = "true"],
          [NoError EXCEPT !.code = "ECONNRESET", !.message = <<"socket", "hang", "up">>],
          [NoError EXCEPT !.code = "ETIMEDOUT", !.message = <<"connect", "ETIMEDOUT">>],
          [NoError EXCEPT !.code = "ECONNABORTED",
                          !.message = <<"timeout", "of", "30000ms", "exceeded">>],
          [NoError EXCEPT !.code = "ENOTFOUND", !.message = <<"getaddrinfo", "ENOTFOUND">>]}

serverUnchanged == UNCHANGED <<canvasVars, geoVars, ctxVars>>

(* a service method calls makeClaudeAPICall(messages) (lines 168, 282, 461) *)
makeClaudeAPICall(c) ==
    /\ apiCalls[c].phase \in {"idle", "returned", "thrown"}
    /\ attempt(c, IdleCall)
    /\ UNCHANGED now
    /\ serverUnchanged

(* axios.post resolves: return response (line 90) *)
axiosResolves(c) ==
    /\ apiCalls[c].phase = "posting"
    /\ apiCalls' = [apiCalls EXCEPT ![c].phase = "returned"]
    /\ UNCHANGED <<tokenUsage, lastResetTime, now>>
    /\ serverUnchanged

(* axios.post rejects: the catch block *)
axiosRejects(c, error) ==
    /\ apiCalls[c].phase = "posting"
    /\ apiCalls' = [apiCalls EXCEPT ![c] = caught(@, error)]
    /\ UNCHANGED <<tokenUsage, lastResetTime, now>>
    /\ serverUnchanged

(* the delay is over: makeClaudeAPICall(messages, retryCount + 1) (lines 119-120) *)
delayElapsed(c) ==
    /\ apiCalls[c].phase = "delaying"
    /\ now >= apiCalls[c].until
    /\ attempt(c, [apiCalls[c] EXCEPT !.retryCount = @ + 1, !.error = NoError])
    /\ UNCHANGED now
    /\ serverUnchanged

(* time passes; the clock stops at MaxNow unless a delay is still running *)
Tick ==
    /\ \/ now < MaxNow
       \/ \E c \in 1..MaxCalls : apiCalls[c].phase = "delaying" /\ now < apiCalls[c].until
    /\ now' = now + TickMs
    /\ UNCHANGED <<tokenUsage, lastResetTime, apiCalls>>
    /\ serverUnchanged

ServerNext ==
    \/ \E c \in 1..MaxCalls : makeClaudeAPICall(c)
    \/ \E c \in 1..MaxCalls : axiosResolves(c)
    \/ \E c \in 1..MaxCalls, error \in Failures : axiosRejects(c, error)
    \/ \E c \in 1..MaxCalls : delayElapsed(c)
    \/ Tick

(* a request that was sent is answered or fails, a delay that was set runs out *)
SpecServer ==
    /\ Init /\ [][ServerNext]_vars
    /\ \A c \in 1..MaxCalls :
          /\ WF_vars(axiosResolves(c) \/ \E error \in Failures : axiosRejects(c, error))
          /\ WF_vars(delayElapsed(c))
    /\ WF_vars(Tick)


-----------------------------------------------------------------------------
(* a failure the retry rule names *)
Retryable(error) ==
    \/ error.status \in {429, 500, 502, 503, 504, 529}
    \/ error.type = "overloaded_error"
    \/ error.xShouldRetry = "true"
    \/ error.code \in {"ECONNRESET", "ETIMEDOUT"}
    \/ includes(error.message, "timeout")

(* the error is the one checkRateLimit throws *)
IsRateLimitRejection(error) ==
    /\ error.status = 0 /\ error.code = ""
    /\ Len(error.message) >= 3
    /\ SubSeq(error.message, 1, 3) = <<"Rate", "limit", "exceeded.">>

(* the step runs the body of makeClaudeAPICall for invocation c: a new
   invocation, or the retry after a delay *)
AttemptStep(c) ==
    /\ apiCalls[c].phase \in {"idle", "returned", "thrown", "delaying"}
    /\ apiCalls'[c] # apiCalls[c]

(* ... and checkRateLimit threw *)
RejectedStep(c) == AttemptStep(c) /\ apiCalls'[c].phase # "posting"

(* C37: an invocation of makeClaudeAPICall sends at most MAX_RETRIES + 1 = 4
   requests and then ends, returning or throwing; it waits for a retry only after
   a retryable failure, and an attempt that checkRateLimit rejected is thrown,
   never retried *)
C37_BoundedRetries ==
    /\ [](\A c \in 1..MaxCalls :
            /\ apiCalls[c].requests <= MAX_RETRIES + 1
            /\ apiCalls[c].checks <= MAX_RETRIES + 1
            /\ apiCalls[c].phase = "delaying"
                 => (Retryable(apiCalls[c].error) /\ ~IsRateLimitRejection(apiCalls[c].error)))
    /\ [][\A c \in 1..MaxCalls :
            /\ apiCalls'[c].retryCount > apiCalls[c].retryCount
                 => apiCalls[c].phase = "delaying"
            /\ RejectedStep(c)
                 => (apiCalls'[c].phase = "thrown" /\ IsRateLimitRejection(apiCalls'[c].error))]_vars
    /\ \A c \in 1..MaxCalls :
          (apiCalls[c].phase \in {"posting", "delaying"})
             ~> (apiCalls[c].phase \in {"returned", "thrown"})

(* the fourth request of an invocation failed with 503 and the error was thrown *)
C37_Witness ==
    \E c \in 1..MaxCalls :
        /\ apiCalls[c].phase = "thrown"
        /\ apiCalls[c].retryCount = MAX_RETRIES /\ apiCalls[c].requests = MAX_RETRIES + 1
        /\ apiCalls[c].error.status = 503

(* a retry was rejected by checkRateLimit and the rejection was thrown *)
RetryRejectedAndThrown ==
    \E c \in 1..MaxCalls :
        /\ apiCalls[c].phase = "thrown" /\ IsRateLimitRejection(apiCalls[c].error)
        /\ apiCalls[c].retryCount > 0 /\ apiCalls[c].requests = apiCalls[c].retryCount

(* C38: tokenUsage never exceeds RATE_LIMIT; a rejected attempt leaves tokenUsage
   as it was, an attempt that is let through, first or retry, adds 1000 to it,
   and tokenUsage goes back to 0 only in a check made RATE_LIMIT_WINDOW or more
   after lastResetTime *)
C38_TokenWindow ==
    /\ [](tokenUsage <= RATE_LIMIT)
    /\ [][/\ \A c \in 1..MaxCalls :
               /\ RejectedStep(c)
                    => (tokenUsage' = tokenUsage /\ tokenUsage + 1000 > RATE_LIMIT)
               /\ (AttemptStep(c) /\ apiCalls'[c].phase = "posting")
                    => tokenUsage' = 1000 + (IF now - lastResetTime >= RATE_LIMIT_WINDOW
                                             THEN 0 ELSE tokenUsage)
          /\ (tokenUsage' < tokenUsage \/ lastResetTime' # lastResetTime)
               => (now - lastResetTime >= RATE_LIMIT_WINDOW /\ lastResetTime' = now)
          /\ tokenUsage' # tokenUsage => \E c \in 1..MaxCalls : AttemptStep(c)]_vars

(* after a reset the window has filled up again and an attempt was rejected *)
C38_Witness ==
    /\ tokenUsage = RATE_LIMIT /\ lastResetTime > 0
    /\ \E c \in 1..MaxCalls :
          /\ apiCalls[c].phase = "thrown" /\ IsRateLimitRejection(apiCalls[c].error)
          /\ apiCalls[c].requests = 0

=============================================================================
